---------------------------- MODULE Spec2Model ----------------------------
(***************************************************************************)
(* A model of the search handlers of the deenseek repository.              *)
(*                                                                         *)
(*   elastic/arabert_search.py  text normalisation, synonym expansion and  *)
(*                              the composed lexical / hybrid queries      *)
(*   elastic/app.py             the mode-dispatching /search handler with  *)
(*                              its fallbacks (specification Spec)         *)
(*   elastic/app2.py            the /search handler over the shared global *)
(*                              client handle (specification Spec2)        *)
(*                                                                         *)
(* Text is a sequence of Unicode code points.  Boosts are the source's     *)
(* decimal weights times ten.  The index service and the embedding model   *)
(* are the environment: every call to them either succeeds or raises one   *)
(* of the exceptions of Failures.                                          *)
(***************************************************************************)
EXTENDS Integers, Sequences, FiniteSets, TLC

(***************************************************************************)
(* Text helpers (Python str semantics)                                     *)
(***************************************************************************)

\* str.isspace(): the characters str.split() splits on and \s matches.
IsSpace(c) ==
    \/ c \in 9..13
    \/ c \in 28..32
    \/ c \in {133, 160, 5760, 8232, 8233, 8239, 8287, 12288}
    \/ c \in 8192..8202

RECURSIVE SplitFrom(_, _, _)
\* str.split() from position i on, cur being the token collected so far.
SplitFrom(s, i, cur) ==
    IF i > Len(s)
    THEN IF cur = <<>> THEN <<>> ELSE <<cur>>
    ELSE IF IsSpace(s[i])
         THEN IF cur = <<>>
              THEN SplitFrom(s, i + 1, <<>>)
              ELSE <<cur>> \o SplitFrom(s, i + 1, <<>>)
         ELSE SplitFrom(s, i + 1, Append(cur, s[i]))

\* text.split(): the maximal runs of non-whitespace characters.
Split(s) == SplitFrom(s, 1, <<>>)

RECURSIVE JoinSpace(_)
\* ' '.join(tokens)
JoinSpace(tokens) ==
    IF tokens = <<>> THEN <<>>
    ELSE IF Len(tokens) = 1 THEN tokens[1]
    ELSE tokens[1] \o <<32>> \o JoinSpace(Tail(tokens))

RECURSIVE LStrip(_)
LStrip(s) == IF s # <<>> /\ IsSpace(s[1]) THEN LStrip(Tail(s)) ELSE s

RECURSIVE RStrip(_)
RStrip(s) ==
    IF s # <<>> /\ IsSpace(s[Len(s)]) THEN RStrip(SubSeq(s, 1, Len(s) - 1)) ELSE s

\* text.strip()
Strip(s) == RStrip(LStrip(s))

\* Elementwise map over a text.
MapSeq(s, F(_)) == [i \in 1..Len(s) |-> F(s[i])]

(***************************************************************************)
(* AraBERTSearchEngine.preprocess_arabic_text                              *)
(***************************************************************************)

\* [U+064B-U+0652]: the diacritics the normaliser removes.
IsDiacritic(c) == c \in 1611..1618

\* [^U+0600-U+06FF, whitespace]: neither Arabic-block nor whitespace.
IsForeign(c) == ~(c \in 1536..1791) /\ ~IsSpace(c)

\* The three letter foldings, applied in the source's order.
FoldAlef(c) == IF c \in {1571, 1573, 1570} THEN 1575 ELSE c
FoldTehMarbuta(c) == IF c = 1577 THEN 1607 ELSE c
\* Mutant: yeh and alef maksura are swapped instead of folded.
MutFoldYeh(c) == IF c = 1610 THEN 1609 ELSE IF c = 1609 THEN 1610 ELSE c
FoldYeh(c) == IF c = 1610 THEN 1609 ELSE c
BlankForeign(c) == IF IsForeign(c) THEN 32 ELSE c
NotDiacritic(c) == ~IsDiacritic(c)

preprocess_arabic_text(text) ==
    IF text = <<>> THEN <<>>
    ELSE LET t1 == SelectSeq(text, NotDiacritic)
             t2 == MapSeq(t1, FoldAlef)
             t3 == MapSeq(t2, FoldTehMarbuta)
             t4 == MapSeq(t3, FoldYeh)
             t5 == MapSeq(t4, BlankForeign)
             t6 == JoinSpace(Split(t5))
         IN  Strip(t6)

(***************************************************************************)
(* AraBERTSearchEngine.synonyms and expand_query                           *)
(***************************************************************************)

\* The keys of self.synonyms, in the source's order.
SynonymKeys ==
    << <<1589, 1604, 1575, 1577>>,
       <<1587, 1601, 1585>>,
       <<1581, 1580>>,
       <<1589, 1608, 1605>>,
       <<1586, 1603, 1575, 1577>>,
       <<1608, 1590, 1608, 1569>>,
       <<1602, 1585, 1570, 1606>>,
       <<1587, 1606, 1577>>,
       <<1583, 1593, 1575, 1569>>,
       <<1580, 1606, 1575, 1586, 1577>>,
       <<1606, 1603, 1575, 1581>>,
       <<1591, 1604, 1575, 1602>>,
       <<1576, 1610, 1593>>,
       <<1585, 1576, 1575>>,
       <<1580, 1607, 1575, 1583>>,
       <<1593, 1604, 1605>>,
       <<1584, 1606, 1576>>,
       <<1578, 1608, 1576, 1577>>,
       <<1580, 1606, 1577>>,
       <<1606, 1575, 1585>> >>

\* The related terms of each key, in the source's order.
SynonymValues ==
    << << <<1589, 1604, 1608, 1575, 1578>>, <<1589, 1604, 1575, 1607>>, <<1575, 1604, 1589, 1604, 1575, 1577>>, <<1601, 1585, 1610, 1590, 1577>> >>,
       << <<1587, 1601, 1575, 1585>>, <<1585, 1581, 1604, 1577>>, <<1587, 1601, 1585, 1607>>, <<1605, 1587, 1575, 1601, 1585>> >>,
       << <<1581, 1580, 1577>>, <<1581, 1580, 1580>>, <<1575, 1604, 1581, 1580>>, <<1581, 1575, 1580>> >>,
       << <<1589, 1610, 1575, 1605>>, <<1589, 1575, 1574, 1605>>, <<1575, 1604, 1589, 1608, 1605>>, <<1585, 1605, 1590, 1575, 1606>> >>,
       << <<1586, 1603, 1608, 1575, 1578>>, <<1575, 1604, 1586, 1603, 1575, 1577>>, <<1589, 1583, 1602, 1577>> >>,
       << <<1591, 1607, 1575, 1585, 1577>>, <<1578, 1591, 1607, 1585>>, <<1575, 1604, 1608, 1590, 1608, 1569>> >>,
       << <<1575, 1604, 1602, 1585, 1570, 1606>>, <<1603, 1578, 1575, 1576, 32, 1575, 1604, 1604, 1607>>, <<1575, 1604, 1605, 1589, 1581, 1601>> >>,
       << <<1587, 1606, 1606>>, <<1581, 1583, 1610, 1579>>, <<1606, 1576, 1608, 1610>> >>,
       << <<1571, 1583, 1593, 1610, 1577>>, <<1584, 1603, 1585>>, <<1583, 1593, 1608, 1577>> >>,
       << <<1605, 1608, 1578>>, <<1608, 1601, 1575, 1577>>, <<1583, 1601, 1606>> >>,
       << <<1586, 1608, 1575, 1580>>, <<1593, 1602, 1583>>, <<1582, 1591, 1576, 1577>> >>,
       << <<1601, 1587, 1582>>, <<1575, 1606, 1601, 1589, 1575, 1604>>, <<1582, 1604, 1593>> >>,
       << <<1588, 1585, 1575, 1569>>, <<1578, 1580, 1575, 1585, 1577>>, <<1605, 1593, 1575, 1605, 1604, 1577>> >>,
       << <<1601, 1575, 1574, 1583, 1577>>, <<1585, 1610, 1576, 1577>>, <<1581, 1585, 1575, 1605>> >>,
       << <<1602, 1578, 1575, 1604>>, <<1594, 1586, 1608>>, <<1605, 1580, 1575, 1607, 1583>> >>,
       << <<1578, 1593, 1604, 1605>>, <<1601, 1602, 1607>>, <<1605, 1593, 1585, 1601, 1577>> >>,
       << <<1605, 1593, 1589, 1610, 1577>>, <<1582, 1591, 1571>>, <<1573, 1579, 1605>> >>,
       << <<1575, 1587, 1578, 1594, 1601, 1575, 1585>>, <<1606, 1583, 1605>>, <<1585, 1580, 1608, 1593>> >>,
       << <<1601, 1585, 1583, 1608, 1587>>, <<1606, 1593, 1610, 1605>>, <<1582, 1604, 1608, 1583>> >>,
       << <<1593, 1584, 1575, 1576>>, <<1580, 1607, 1606, 1605>>, <<1593, 1602, 1575, 1576>> >> >>

\* word in self.synonyms
HasSynonyms(word) == \E k \in 1..Len(SynonymKeys) : SynonymKeys[k] = word

\* self.synonyms[word]
SynonymsOf(word) ==
    SynonymValues[CHOOSE k \in 1..Len(SynonymKeys) : SynonymKeys[k] = word]

RECURSIVE ExtendWithSynonyms(_, _)
\* The loop over the words of the query: extend with each word's related terms.
ExtendWithSynonyms(terms, words) ==
    IF words = <<>> THEN terms
    ELSE ExtendWithSynonyms(
            IF HasSynonyms(words[1]) THEN terms \o SynonymsOf(words[1]) ELSE terms,
            Tail(words))

\* Mutant: the expanded terms are returned with their duplicates.
MutUnique(terms, seen) == terms

RECURSIVE Unique(_, _)
\* Remove duplicates while preserving order (seen is the set of terms kept).
Unique(terms, seen) ==
    IF terms = <<>> THEN <<>>
    ELSE IF terms[1] \in seen THEN Unique(Tail(terms), seen)
    ELSE <<terms[1]>> \o Unique(Tail(terms), seen \cup {terms[1]})

expand_query(query) ==
    LET q == preprocess_arabic_text(query)
    IN  Unique(ExtendWithSynonyms(<<q>>, Split(q)), {})

(***************************************************************************)
(* AraBERTSearchEngine.create_enhanced_query and the hybrid query          *)
(***************************************************************************)

\* The clause boosts, times ten.
BoostPhrase == 50
BoostAllWords == 30
BoostFuzzy == 20
BoostSynonymEarly == 25
BoostSynonymLate == 15
BoostCrossField == 28
BoostWildcard == 12
BoostBoolWords == 22
\* The number of leading synonyms that get the higher boost.
EarlySynonyms == 3
\* minimum_should_match of the composed queries.
MinimumShouldMatch == 1

SynonymClauses(expanded_terms) ==
    [i \in 1..(Len(expanded_terms) - 1) |->
        [match |-> [text |-> [query |-> expanded_terms[i + 1],
                              boost |-> IF i <= EarlySynonyms
                                        THEN BoostSynonymEarly
                                        ELSE BoostSynonymLate]]]]

BoolWordsClause(search_term) ==
    IF Len(Split(search_term)) > 1
    THEN << [bool |-> [must |-> [i \in 1..Len(Split(search_term)) |->
                                    [match |-> [text |-> Split(search_term)[i]]]],
                       boost |-> BoostBoolWords]] >>
    ELSE <<>>

create_enhanced_query(search_term) ==
    LET expanded_terms == expand_query(search_term)
        should_queries ==
            << [match_phrase |-> [text |-> [query |-> search_term,
                                            boost |-> BoostPhrase]]],
               [match |-> [text |-> [query |-> search_term,
                                     boost |-> BoostAllWords,
                                     operator |-> "and"]]],
               [fuzzy |-> [text |-> [value |-> search_term,
                                     fuzziness |-> "AUTO",
                                     boost |-> BoostFuzzy]]] >>
            \o SynonymClauses(expanded_terms)
            \o << [multi_match |-> [query |-> search_term,
                                    fields |-> <<"text^3", "processed_text^2">>,
                                    type |-> "best_fields",
                                    boost |-> BoostCrossField]],
                  [wildcard |-> [text |-> [value |-> <<42>> \o search_term \o <<42>>,
                                           boost |-> BoostWildcard]]] >>
            \o BoolWordsClause(search_term)
    IN  [bool |-> [should |-> should_queries,
                   minimum_should_match |-> MinimumShouldMatch]]

\* An embedding is [some |-> TRUE, vec |-> v]; query_embedding = None is NoEmbedding.
NoEmbedding == [some |-> FALSE]

create_semantic_query(search_term, query_embedding) ==
    IF query_embedding.some
    THEN [script_score |->
            [query |-> [match_all |-> <<>>],
             script |-> [source |-> "cosineSimilarity(params.query_vector, 'text_embedding') + 1.0",
                         params |-> [query_vector |-> query_embedding.vec]]]]
    ELSE [knn |-> [field |-> "content",
                   query_vector_builder |-> [text_embedding |-> [text |-> search_term]],
                   k |-> 10,
                   num_candidates |-> 100]]

create_hybrid_query(search_term, query_embedding) ==
    LET lexical_query == create_enhanced_query(search_term)
        semantic_query == create_semantic_query(search_term, query_embedding)
    IN  [bool |-> [should |-> <<semantic_query, lexical_query>>,
                   minimum_should_match |-> MinimumShouldMatch]]

(***************************************************************************)
(* The environment of elastic/app.py: the index service and the embedding  *)
(* model behind es.indices.exists, es.count, es.search and get_embedding   *)
(***************************************************************************)

\* Number of documents the index holds in the model.
NDocs == 2
\* Dimension of the model's embedding vectors (768 in the source).
VecDim == 2

Docs == 1..NDocs

\* How a document relates to the request's search term: "exact" documents hold
\* the term's words, "loose" ones are reached only by the approximate clauses
\* (fuzzy, wildcard), "none" by no lexical clause at all.
DocClasses == {"none", "loose", "exact"}
Contents == [Docs -> DocClasses]
NoContent == [d \in Docs |-> "none"]

RECURSIVE QueryMatches(_, _)
\* Whether a document of class c matches query q (the index service's reading
\* of the query DSL: bool/should with minimum_should_match 1 is a disjunction,
\* bool/must a conjunction, script_score matches what its inner query matches).
QueryMatches(q, c) ==
    IF "match_all" \in DOMAIN q THEN TRUE
    ELSE IF "script_score" \in DOMAIN q THEN QueryMatches(q.script_score.query, c)
    ELSE IF "knn" \in DOMAIN q THEN TRUE
    ELSE IF "bool" \in DOMAIN q
         THEN IF "should" \in DOMAIN q.bool
              THEN \E i \in 1..Len(q.bool.should) : QueryMatches(q.bool.should[i], c)
              ELSE \A i \in 1..Len(q.bool.must) : QueryMatches(q.bool.must[i], c)
    ELSE IF "fuzzy" \in DOMAIN q \/ "wildcard" \in DOMAIN q THEN c \in {"loose", "exact"}
    ELSE c = "exact"

RECURSIVE AscSeq(_)
\* The elements of a finite set of integers in ascending order.
AscSeq(S) ==
    IF S = {} THEN <<>>
    ELSE LET m == CHOOSE a \in S : \A b \in S : a <= b
         IN  <<m>> \o AscSeq(S \ {m})

\* The documents in ranking order: exact matches score above loose ones.
Ranked(content) ==
    AscSeq({d \in Docs : content[d] = "exact"})
    \o AscSeq({d \in Docs : content[d] = "loose"})
    \o AscSeq({d \in Docs : content[d] = "none"})

Min(a, b) == IF a <= b THEN a ELSE b

\* es.count(index, query)['count']
IndexCount(content, q) == Cardinality({d \in Docs : QueryMatches(q, content[d])})

\* es.search(index, query, size)['hits']['hits']: the size best matches.
IndexSearch(content, q, n) ==
    LET Hit(d) == QueryMatches(q, content[d])
        all == SelectSeq(Ranked(content), Hit)
    IN  SubSeq(all, 1, Min(n, Len(all)))

\* The exceptions a call to the index service or to the model may raise.
Failures ==
    { [kind |-> "connection", msg |-> "Connection refused"],
      [kind |-> "auth", msg |-> "security_exception"],
      [kind |-> "not_found", msg |-> "index_not_found_exception"],
      [kind |-> "internal", msg |-> "boom at /srv/app/a.py"],
      [kind |-> "internal", msg |-> "boom at /srv/app/b.py"] }

\* The index service rejects a negative size.
BadRequest == [kind |-> "bad_request", msg |-> "[size] parameter cannot be negative"]
\* min(size, 1000) on a size that is no number.
TypeError == [kind |-> "type_error", msg |-> "'<' not supported between instances of 'int' and 'str'"]

\* The vectors get_embedding may return for a non-empty text.
Vectors == { [i \in 1..VecDim |-> 1] }
\* np.zeros(self.embedding_dim)
ZeroVector == [i \in 1..VecDim |-> 0]

(***************************************************************************)
(* Requests (the JSON body of POST /search)                                *)
(***************************************************************************)

Absent == [has |-> FALSE]
Given(v) == [has |-> TRUE, val |-> v]
\* dict.get(key, default)
DataGet(field, default) == IF field.has THEN field.val ELSE default

\* A JSON size: an integer, or a value that is no number (a string).
IntSize(n) == [int |-> TRUE, v |-> n]
NonIntSize == [int |-> FALSE, v |-> 0]

\* Query terms: "", " ", a synonym-table key, and a two-word term.
TermEmpty == <<>>
TermBlank == <<32>>
TermHajj == <<1581, 1580>>
TermTwoWords == <<1589, 1608, 1605, 32, 1585, 1605, 1590, 1575, 1606>>

QueryInputs == {Absent, Given(TermEmpty), Given(TermBlank), Given(TermHajj), Given(TermTwoWords)}
SizeInputs == {Absent, Given(IntSize(-5)), Given(IntSize(0)), Given(IntSize(1)),
               Given(IntSize(5000)), Given(NonIntSize)}
ModeInputs == {Absent, Given("enhanced"), Given("semantic"), Given("basic"), Given("turbo")}

Requests == [query : QueryInputs, size : SizeInputs, mode : ModeInputs]

(***************************************************************************)
(* elastic/app.py: the pieces of search and of the three search functions  *)
(***************************************************************************)

\* data.get('size', 50)
DefaultSize == 50
\* min(size, 1000)
MaxFetch == 1000

EmbeddingsIndex == "transcription_with_embeddings"
BasicIndex == "transcription"

search_term_of(d) == DataGet(d.query, TermEmpty)
size_of(d) == DataGet(d.size, IntSize(DefaultSize))
mode_of(d) == DataGet(d.mode, "enhanced")

\* if not search_term
RejectsTerm(term) == term = <<>>

\* The if/elif/else of search: which search function handles the request.
Dispatch(m, available) ==
    IF m = "enhanced" /\ available THEN "enhanced"
    ELSE IF m = "semantic" /\ available THEN "semantic"
    ELSE "basic"

\* The query of basic_search.
basic_query(term) == [match |-> [text |-> term]]

\* Mutant: every search function counts with the basic query.
MutCountQuery(fn, term) == basic_query(term)

\* The query each search function passes to es.count.
CountQuery(fn, term) ==
    IF fn = "basic" THEN basic_query(term) ELSE create_enhanced_query(term)

\* Mutant: enhanced_search fetches with the basic query it does not count with.
MutFetchQuery(fn, term, emb) ==
    IF fn = "semantic" THEN create_hybrid_query(term, emb) ELSE basic_query(term)

\* The query each search function passes to es.search.
FetchQuery(fn, term, emb) ==
    IF fn = "basic" THEN basic_query(term)
    ELSE IF fn = "enhanced" THEN create_enhanced_query(term)
    ELSE create_hybrid_query(term, emb)

\* The index each search function counts and searches in.
TargetIndex(fn, index_name) ==
    IF fn = "basic" THEN BasicIndex
    ELSE IF fn = "enhanced" THEN index_name
    ELSE EmbeddingsIndex

\* size=min(size, 1000); raises TypeError when size is no number.
FetchSizeRaises(sz) == ~sz.int
FetchSize(sz) == Min(sz.v, MaxFetch)

\* Mutant: the except block of search retries basic_search whatever the phase.
MutExceptionHandler(fn, in_semantic_try, ph) ==
    IF fn = "semantic" /\ in_semantic_try THEN "enhanced" ELSE "basic_fallback"

\* Where an exception raised in search function fn is handled: the try of
\* semantic_search retries as enhanced_search, the try of search falls back to
\* basic_search, and the fallback's own failure is reported.
ExceptionHandler(fn, in_semantic_try, ph) ==
    IF fn = "semantic" /\ in_semantic_try THEN "enhanced"
    ELSE IF ph = "try" THEN "basic_fallback"
    ELSE "error"

\* The 'mode' of a success response.
ResponseMode(m, ph) == IF ph = "try" THEN m ELSE "basic_fallback"

SuccessResponse(hits, total, m) ==
    [status |-> 200,
     body |-> [results |-> hits, total |-> total, returned |-> Len(hits), mode |-> m]]

\* return jsonify({'results': [], 'total': 0})
EmptyResponse == [status |-> 200, body |-> [results |-> <<>>, total |-> 0]]

\* return jsonify({'error': str(e2), 'results': [], 'total': 0}), 500
ErrorResponse(e) ==
    [status |-> 500, body |-> [error |-> e.msg, results |-> <<>>, total |-> 0]]

NoResponse == [status |-> 0]

(***************************************************************************)
(* elastic/app.py: the handler as a state machine                          *)
(***************************************************************************)

VARIABLES
    arabert,          \* ARABERT_AVAILABLE and arabert_engine
    pc,               \* where the handler is
    data,             \* request.get_json()
    phase,            \* "try": the try block of search; "fallback": its except block
    index_name,       \* enhanced_search's local
    query_embedding,  \* semantic_search's local
    total_count,      \* the current search function's local
    content,          \* the index content the count call saw
    calls,            \* history: the calls made to the index service and the model
    attempts,         \* history: the search functions entered
    resp,             \* the response
    producer          \* history: the search function that built the response's hits

appVars == <<arabert, pc, data, phase, index_name, query_embedding, total_count,
             content, calls, attempts, resp, producer>>

\* The state of elastic/app2.py (its handlers are modelled further down).
VARIABLES
    es,          \* the global client handle
    created,     \* number of client objects created so far
    route,       \* per request: "search" or "index"
    pc2,         \* per request: where its handler is
    data2,       \* per request: request.get_json()
    es_client,   \* per request: the local of get_elasticsearch_client
    calls2,      \* per request, history: the calls made to the index service
    raised2,     \* per request, history: the exception its handler caught
    resp2        \* per request: the response

app2Vars == <<es, created, route, pc2, data2, es_client, calls2, raised2, resp2>>

\* The state of a call of one of the pure functions of the repository
\* (format_time, the deep link of a hit, preprocess_arabic_text).
VARIABLES
    lib_pc,      \* "idle", or "done" once the function has returned or raised
    lib_fn,      \* the function called
    lib_arg,     \* its argument
    lib_out      \* what it returned or raised

libVars == <<lib_pc, lib_fn, lib_arg, lib_out>>

\* The state of the search handler of app_v2.py (grouped results).
VARIABLES
    v2_pc,                \* where the handler is
    v2_data,              \* request.get_json()
    v2_index,             \* the documents the index holds
    v2_hits,              \* the ranked hits of the first search (documents, best first)
    matching_doc_ids,     \* the handler's local
    group_ids,            \* the handler's local
    initial_scores,       \* the handler's local
    v2_fetched,           \* history: the documents the group fetch returned, in order
    v2_groups,            \* history: per emitted group, the documents behind its items
    v2_raised,            \* history: the exception the handler caught
    v2_resp               \* the response

v2Vars == <<v2_pc, v2_data, v2_index, v2_hits, matching_doc_ids, group_ids,
            initial_scores, v2_fetched, v2_groups, v2_raised, v2_resp>>

\* What the handlers of elastic/app.py, and those of elastic/app2.py, leave alone.
outsideApp == <<app2Vars, libVars, v2Vars>>
outsideApp2 == <<appVars, libVars, v2Vars>>

term == search_term_of(data)
CurAttempt == Len(attempts)

NoQuery == [none |-> TRUE]

Call(fn, op, index, q, n, e) ==
    [att |-> CurAttempt, fn |-> fn, op |-> op, index |-> index, query |-> q,
     size |-> n, err |-> e]

NewAttempt(fn) == [fn |-> fn, out |-> "running", cause |-> "", err |-> ""]
Close(out, cause, err) ==
    [attempts EXCEPT ![CurAttempt] = [@ EXCEPT !.out = out, !.cause = cause, !.err = err]]

AppInit ==
    /\ arabert \in BOOLEAN
    /\ pc = "idle"
    /\ data = [query |-> Absent, size |-> Absent, mode |-> Absent]
    /\ phase = "try"
    /\ index_name = ""
    /\ query_embedding = NoEmbedding
    /\ total_count = 0
    /\ content = NoContent
    /\ calls = <<>>
    /\ attempts = <<>>
    /\ resp = NoResponse
    /\ producer = ""

\* An exception e raised in search function fn; logged is the call log after it.
Raise(fn, in_semantic_try, cause, e, logged) ==
    LET h == ExceptionHandler(fn, in_semantic_try, phase)
        closed == Close("failed", cause, e.kind)
    IN  /\ calls' = logged
        /\ pc' = IF h = "enhanced" THEN "enh_exists"
                 ELSE IF h = "basic_fallback" THEN "bas_count" ELSE "done"
        /\ phase' = IF h = "basic_fallback" THEN "fallback" ELSE phase
        /\ attempts' = IF h = "enhanced" THEN Append(closed, NewAttempt("enhanced"))
                       ELSE IF h = "basic_fallback" THEN Append(closed, NewAttempt("basic"))
                       ELSE closed
        /\ resp' = IF h = "error" THEN ErrorResponse(e) ELSE resp
        /\ UNCHANGED <<arabert, data, index_name, query_embedding, total_count,
                       content, producer>>

\* search up to the dispatch: read the request, reject an empty term, or enter
\* the search function of the requested mode.
Search_Begin ==
    /\ pc = "idle"
    /\ \E d \in Requests :
        /\ data' = d
        /\ phase' = "try"
        /\ index_name' = ""
        /\ query_embedding' = NoEmbedding
        /\ total_count' = 0
        /\ content' = NoContent
        /\ calls' = <<>>
        /\ producer' = ""
        /\ IF RejectsTerm(search_term_of(d))
           THEN /\ resp' = EmptyResponse
                /\ attempts' = <<>>
                /\ pc' = "done"
           ELSE LET fn == Dispatch(mode_of(d), arabert)
                IN  /\ resp' = NoResponse
                    /\ attempts' = <<NewAttempt(fn)>>
                    /\ pc' = IF fn = "enhanced" THEN "enh_exists"
                             ELSE IF fn = "semantic" THEN "sem_exists"
                             ELSE "bas_count"
    /\ UNCHANGED arabert
    /\ UNCHANGED outsideApp

\* semantic_search: es.indices.exists(index=index_name), outside its try.
Semantic_Exists ==
    /\ pc = "sem_exists"
    /\ \/ /\ calls' = Append(calls, Call("semantic", "exists", EmbeddingsIndex, NoQuery, 0, ""))
          /\ \/ /\ pc' = "sem_embed"
                /\ attempts' = attempts
             \/ /\ pc' = "enh_exists"
                /\ attempts' = Append(Close("no_index", "", ""), NewAttempt("enhanced"))
          /\ UNCHANGED <<arabert, data, phase, index_name, query_embedding, total_count,
                         content, resp, producer>>
       \/ \E e \in Failures :
            Raise("semantic", FALSE, "index", e,
                  Append(calls, Call("semantic", "exists", EmbeddingsIndex, NoQuery, 0, e.kind)))
    /\ UNCHANGED outsideApp

\* semantic_search: query_embedding = arabert_engine.get_embedding(search_term).
\* The model is run only on a text that is not empty after normalisation.
Semantic_Embed ==
    /\ pc = "sem_embed"
    /\ IF preprocess_arabic_text(term) = <<>>
       THEN /\ query_embedding' = [some |-> TRUE, vec |-> ZeroVector]
            /\ pc' = "sem_count"
            /\ UNCHANGED <<arabert, data, phase, index_name, total_count, content,
                           calls, attempts, resp, producer>>
       ELSE \/ \E v \in Vectors :
                /\ query_embedding' = [some |-> TRUE, vec |-> v]
                /\ pc' = "sem_count"
                /\ calls' = Append(calls, Call("semantic", "embed", "", NoQuery, 0, ""))
                /\ UNCHANGED <<arabert, data, phase, index_name, total_count, content,
                               attempts, resp, producer>>
            \/ \E e \in Failures :
                /\ e.kind = "internal"
                /\ Raise("semantic", TRUE, "embedding", e,
                         Append(calls, Call("semantic", "embed", "", NoQuery, 0, e.kind)))
    /\ UNCHANGED outsideApp

\* es.count(index, query) of search function fn, leading to step next.
Count(fn, in_semantic_try, next) ==
    LET idx == TargetIndex(fn, index_name)
        q == CountQuery(fn, term)
    IN  \/ \E c \in Contents :
            /\ content' = c
            /\ total_count' = IndexCount(c, q)
            /\ calls' = Append(calls, Call(fn, "count", idx, q, 0, ""))
            /\ pc' = next
            /\ UNCHANGED <<arabert, data, phase, index_name, query_embedding,
                           attempts, resp, producer>>
        \/ \E e \in Failures :
            Raise(fn, in_semantic_try, "index", e,
                  Append(calls, Call(fn, "count", idx, q, 0, e.kind)))

\* es.search(index, query, size=min(size, 1000)) of search function fn, the
\* loop over the hits and the success response of search.
Fetch(fn, in_semantic_try) ==
    LET idx == TargetIndex(fn, index_name)
        q == FetchQuery(fn, term, query_embedding)
        sz == size_of(data)
        n == FetchSize(sz)
    IN  IF FetchSizeRaises(sz)
        THEN Raise(fn, in_semantic_try, "size", TypeError, calls)
        ELSE IF n < 0
        THEN Raise(fn, in_semantic_try, "index", BadRequest,
                   Append(calls, Call(fn, "search", idx, q, n, BadRequest.kind)))
        ELSE \/ /\ calls' = Append(calls, Call(fn, "search", idx, q, n, ""))
                /\ resp' = SuccessResponse(IndexSearch(content, q, n), total_count,
                                           ResponseMode(mode_of(data), phase))
                /\ producer' = fn
                /\ attempts' = Close("ok", "", "")
                /\ pc' = "done"
                /\ UNCHANGED <<arabert, data, phase, index_name, query_embedding,
                               total_count, content>>
             \/ \E e \in Failures :
                 Raise(fn, in_semantic_try, "index", e,
                       Append(calls, Call(fn, "search", idx, q, n, e.kind)))

Semantic_Count == pc = "sem_count" /\ Count("semantic", TRUE, "sem_search") /\ UNCHANGED outsideApp
Semantic_Search == pc = "sem_search" /\ Fetch("semantic", TRUE) /\ UNCHANGED outsideApp

\* enhanced_search: es.indices.exists(index=index_name) chooses the index.
Enhanced_Exists ==
    /\ pc = "enh_exists"
    /\ \/ \E found \in BOOLEAN :
            /\ index_name' = IF found THEN EmbeddingsIndex ELSE BasicIndex
            /\ calls' = Append(calls, Call("enhanced", "exists", EmbeddingsIndex, NoQuery, 0, ""))
            /\ pc' = "enh_count"
            /\ UNCHANGED <<arabert, data, phase, query_embedding, total_count, content,
                           attempts, resp, producer>>
       \/ \E e \in Failures :
            Raise("enhanced", FALSE, "index", e,
                  Append(calls, Call("enhanced", "exists", EmbeddingsIndex, NoQuery, 0, e.kind)))
    /\ UNCHANGED outsideApp

Enhanced_Count == pc = "enh_count" /\ Count("enhanced", FALSE, "enh_search") /\ UNCHANGED outsideApp
Enhanced_Search == pc = "enh_search" /\ Fetch("enhanced", FALSE) /\ UNCHANGED outsideApp
Basic_Count == pc = "bas_count" /\ Count("basic", FALSE, "bas_search") /\ UNCHANGED outsideApp
Basic_Search == pc = "bas_search" /\ Fetch("basic", FALSE) /\ UNCHANGED outsideApp

\* The response is sent; the handler waits for the next request.
Search_End ==
    /\ pc = "done"
    /\ pc' = "idle"
    /\ data' = [query |-> Absent, size |-> Absent, mode |-> Absent]
    /\ phase' = "try"
    /\ index_name' = ""
    /\ query_embedding' = NoEmbedding
    /\ total_count' = 0
    /\ content' = NoContent
    /\ calls' = <<>>
    /\ attempts' = <<>>
    /\ resp' = NoResponse
    /\ producer' = ""
    /\ UNCHANGED arabert
    /\ UNCHANGED outsideApp

AppNext ==
    \/ Search_Begin
    \/ Search_End
    \/ Semantic_Exists
    \/ Semantic_Embed
    \/ Semantic_Count
    \/ Semantic_Search
    \/ Enhanced_Exists
    \/ Enhanced_Count
    \/ Enhanced_Search
    \/ Basic_Count
    \/ Basic_Search

(***************************************************************************)
(* elastic/app2.py: the handlers over the shared global client handle es   *)
(***************************************************************************)

\* Number of requests handled concurrently.
NProcs == 2
\* Number of client objects get_elasticsearch_client may create in a run.
MaxClients == 2

Procs == 1..NProcs
\* The global es: None, or a client object (named by a number from 1).
None == 0

\* request.get_json() = None (the JSON body null).
NoData == [json |-> FALSE]
JsonData(q, sz) == [json |-> TRUE, query |-> q, size |-> sz]

Inputs2 ==
    {NoData}
    \cup {JsonData(q, sz) :
            q \in {Absent, Given(TermEmpty), Given(TermBlank), Given(TermHajj)},
            sz \in {Absent, Given(IntSize(0)), Given(IntSize(5000)), Given(NonIntSize)}}

\* if not data: no JSON body, or an empty JSON object.
NotData(d) == ~d.json \/ (~d.query.has /\ ~d.size.has)

\* search_term = data.get('query', '').strip()
search_term2(d) == Strip(DataGet(d.query, TermEmpty))

\* size = data.get('size', 50), replaced by 50 when it is no integer or < 1.
size2(d) ==
    LET sz == DataGet(d.size, IntSize(DefaultSize))
    IN  IF ~sz.int \/ sz.v < 1 THEN DefaultSize ELSE sz.v

\* The upper limit of num_candidates.
MaxCandidates == 100

\* retriever_object
retriever_object(search_term, sz) ==
    [standard |-> [query |-> [knn |->
        [field |-> "vector",
         num_candidates |-> Min(sz * 2, MaxCandidates),
         query_vector_builder |->
            [text_embedding |-> [model_id |-> "", model_text |-> search_term]]]]]]

Unavailable503 ==
    [status |-> 503,
     body |-> [error |-> <<"Database connection unavailable. Please try again later.">>,
               results |-> <<>>, total |-> 0]]
NoJson400 ==
    [status |-> 400,
     body |-> [error |-> <<"No JSON data provided">>, results |-> <<>>, total |-> 0]]
NoQuery400 ==
    [status |-> 400,
     body |-> [error |-> <<"Search query is required">>, results |-> <<>>, total |-> 0]]

\* The except clauses of search, in the source's order.
ExceptResponse(e) ==
    IF e.kind = "connection"
    THEN [status |-> 503,
          body |-> [error |-> <<"Could not connect to search service. Please try again later.">>,
                    results |-> <<>>, total |-> 0]]
    ELSE IF e.kind = "not_found"
    THEN [status |-> 404,
          body |-> [error |-> <<"Search index not found.">>, results |-> <<>>, total |-> 0]]
    ELSE IF e.kind = "auth"
    THEN [status |-> 503,
          body |-> [error |-> <<"Authentication error with search service.">>,
                    results |-> <<>>, total |-> 0]]
    ELSE [status |-> 500,
          body |-> [error |-> <<"An unexpected error occurred: ", e.msg>>,
                    results |-> <<>>, total |-> 0]]

\* es.search(...) on es = None, raised inside the try of search.
NoneHasNoSearch ==
    [kind |-> "attribute_error", msg |-> "'NoneType' object has no attribute 'search'"]
\* es.ping() on es = None, raised before the try: the framework answers.
Unhandled500 == [status |-> 500, body |-> [error |-> <<"Internal Server Error">>]]

Success2(hits, total) ==
    [status |-> 200,
     body |-> [results |-> hits, total |-> total, returned |-> Len(hits)]]

\* render_template('index.html')
Page200 == [status |-> 200, body |-> [page |-> "index.html"]]

NoFailure == [kind |-> "", msg |-> ""]

App2Init ==
    /\ es \in {None, 1}
    /\ created = 1
    /\ route = [p \in Procs |-> "search"]
    /\ pc2 = [p \in Procs |-> "idle"]
    /\ data2 = [p \in Procs |-> NoData]
    /\ es_client = [p \in Procs |-> None]
    /\ calls2 = [p \in Procs |-> <<>>]
    /\ raised2 = [p \in Procs |-> NoFailure]
    /\ resp2 = [p \in Procs |-> NoResponse]

Goto(p, label) == pc2' = [pc2 EXCEPT ![p] = label]
Log(p, op, client) ==
    calls2' = [calls2 EXCEPT ![p] = Append(@, [op |-> op, client |-> client])]
Respond(p, r) == resp2' = [resp2 EXCEPT ![p] = r] /\ Goto(p, "done")

\* A request arrives at / or at /search.
Begin2(p) ==
    /\ pc2[p] = "idle"
    /\ \/ /\ route' = [route EXCEPT ![p] = "index"]
          /\ data2' = [data2 EXCEPT ![p] = NoData]
       \/ \E d \in Inputs2 :
          /\ route' = [route EXCEPT ![p] = "search"]
          /\ data2' = [data2 EXCEPT ![p] = d]
    /\ Goto(p, "check_none")
    /\ UNCHANGED <<es, created, es_client, calls2, raised2, resp2>>
    /\ UNCHANGED outsideApp2

\* if es is None ...
CheckNone(p) ==
    /\ pc2[p] = "check_none"
    /\ Goto(p, IF es = None THEN "reconnect" ELSE "check_ping")
    /\ UNCHANGED <<es, created, route, data2, es_client, calls2, raised2, resp2>>
    /\ UNCHANGED outsideApp2

\* ... or not es.ping(): the global is read again; ping answers True or False.
CheckPing(p) ==
    /\ pc2[p] = "check_ping"
    /\ IF es = None
       THEN /\ Respond(p, Unhandled500)
            /\ UNCHANGED <<es, created, route, data2, es_client, calls2, raised2>>
       ELSE /\ Log(p, "ping", es)
            /\ \E pong \in BOOLEAN :
                 Goto(p, IF pong THEN (IF route[p] = "search" THEN "parse" ELSE "render")
                         ELSE "reconnect")
            /\ UNCHANGED <<es, created, route, data2, es_client, raised2, resp2>>
    /\ UNCHANGED outsideApp2

\* get_elasticsearch_client: a new client is built and pinged; the function
\* returns it, or None when the ping fails or anything raises.
Reconnect(p) ==
    /\ pc2[p] = "reconnect"
    /\ \/ /\ created < MaxClients
          /\ created' = created + 1
          /\ Log(p, "ping", created + 1)
          /\ \E pong \in BOOLEAN :
               es_client' = [es_client EXCEPT ![p] = IF pong THEN created + 1 ELSE None]
       \/ /\ es_client' = [es_client EXCEPT ![p] = None]
          /\ Log(p, "connect", None)
          /\ UNCHANGED created
    /\ Goto(p, "assign")
    /\ UNCHANGED <<es, route, data2, raised2, resp2>>
    /\ UNCHANGED outsideApp2

\* es = get_elasticsearch_client()
Assign(p) ==
    /\ pc2[p] = "assign"
    /\ es' = es_client[p]
    /\ Goto(p, IF route[p] = "search" THEN "check_after" ELSE "render")
    /\ UNCHANGED <<created, route, data2, es_client, calls2, raised2, resp2>>
    /\ UNCHANGED outsideApp2

\* search: if es is None after the reconnection, answer 503.
CheckAfter(p) ==
    /\ pc2[p] = "check_after"
    /\ IF es = None
       THEN Respond(p, Unavailable503)
       ELSE Goto(p, "parse") /\ UNCHANGED resp2
    /\ UNCHANGED <<es, created, route, data2, es_client, calls2, raised2>>
    /\ UNCHANGED outsideApp2

\* search: read and validate the request.
Parse(p) ==
    /\ pc2[p] = "parse"
    /\ IF NotData(data2[p]) THEN Respond(p, NoJson400)
       ELSE IF search_term2(data2[p]) = <<>> THEN Respond(p, NoQuery400)
       ELSE Goto(p, "search") /\ UNCHANGED resp2
    /\ UNCHANGED <<es, created, route, data2, es_client, calls2, raised2>>
    /\ UNCHANGED outsideApp2

\* search: es.search(index, retriever, size=min(size, 1000), request_timeout=30),
\* the loop over the hits, the success response and the except clauses.
Search2(p) ==
    /\ pc2[p] = "search"
    /\ LET sz == size2(data2[p])
           q == retriever_object(search_term2(data2[p]), sz)
           n == Min(sz, MaxFetch)
       IN  IF es = None
           THEN /\ raised2' = [raised2 EXCEPT ![p] = NoneHasNoSearch]
                /\ Respond(p, ExceptResponse(NoneHasNoSearch))
                /\ UNCHANGED calls2
           ELSE /\ calls2' = [calls2 EXCEPT ![p] =
                                Append(@, [op |-> "search", client |-> es, size |-> n])]
                /\ \/ \E c \in Contents :
                        /\ Respond(p, Success2(IndexSearch(c, q.standard.query, n),
                                               IndexCount(c, q.standard.query)))
                        /\ UNCHANGED raised2
                   \/ \E e \in Failures :
                        /\ raised2' = [raised2 EXCEPT ![p] = e]
                        /\ Respond(p, ExceptResponse(e))
    /\ UNCHANGED <<es, created, route, data2, es_client>>
    /\ UNCHANGED outsideApp2

\* index: return render_template('index.html')
Render(p) ==
    /\ pc2[p] = "render"
    /\ Respond(p, Page200)
    /\ UNCHANGED <<es, created, route, data2, es_client, calls2, raised2>>
    /\ UNCHANGED outsideApp2

\* The response is sent; the worker waits for the next request.
End2(p) ==
    /\ pc2[p] = "done"
    /\ Goto(p, "idle")
    /\ route' = [route EXCEPT ![p] = "search"]
    /\ data2' = [data2 EXCEPT ![p] = NoData]
    /\ es_client' = [es_client EXCEPT ![p] = None]
    /\ calls2' = [calls2 EXCEPT ![p] = <<>>]
    /\ raised2' = [raised2 EXCEPT ![p] = NoFailure]
    /\ resp2' = [resp2 EXCEPT ![p] = NoResponse]
    /\ UNCHANGED <<es, created>>
    /\ UNCHANGED outsideApp2

App2Next ==
    \E p \in Procs :
        \/ Begin2(p)
        \/ CheckNone(p)
        \/ CheckPing(p)
        \/ Reconnect(p)
        \/ Assign(p)
        \/ CheckAfter(p)
        \/ Parse(p)
        \/ Search2(p)
        \/ Render(p)
        \/ End2(p)

(***************************************************************************)
(* The pure functions of app_v2.py / app3.py: Python values and format_time *)
(***************************************************************************)

\* Largest whole number of seconds format_time is called with in the model.
MaxSeconds == 3700
\* Floats are modelled in tenths: the largest magnitude, in tenths of a second.
MaxTenths == 25

\* The values a JSON field can hold once loaded: None, an int, a float (in
\* tenths), a bool and a string (as code points).
PyNone == [kind |-> "none"]
PyInt(n) == [kind |-> "int", v |-> n]
PyFloat(t) == [kind |-> "float", tenths |-> t]
PyBool(b) == [kind |-> "bool", v |-> b]
PyStr(t) == [kind |-> "str", v |-> t]

\* bool(x): the truth value of `not seconds`.
Truthy(x) ==
    IF x.kind = "none" THEN FALSE
    ELSE IF x.kind = "int" THEN x.v # 0
    ELSE IF x.kind = "float" THEN x.tenths # 0
    ELSE IF x.kind = "bool" THEN x.v
    ELSE x.v # <<>>

\* isinstance(x, (int, float)); bool is a subclass of int.
IsNumber(x) == x.kind \in {"int", "float", "bool"}

\* int(float(x)) of a number: truncation toward zero.
IntOf(x) ==
    IF x.kind = "int" THEN x.v
    ELSE IF x.kind = "bool" THEN (IF x.v THEN 1 ELSE 0)
    ELSE IF x.tenths >= 0 THEN x.tenths \div 10
    ELSE 0 - ((0 - x.tenths) \div 10)

RECURSIVE Digits(_)
\* str(n) of a natural number, as code points.
Digits(n) ==
    IF n < 10 THEN <<48 + n>> ELSE Digits(n \div 10) \o <<48 + (n % 10)>>

\* %M and %S of strftime: two decimal digits.
TwoDigits(n) == <<48 + (n \div 10), 48 + (n % 10)>>

\* time.strftime("%M:%S", time.gmtime(seconds)): minute and second of the hour
\* of the moment `seconds` after the epoch (before it, when negative).
strftime_MS(seconds) ==
    TwoDigits((seconds % 3600) \div 60) \o <<58>> \o TwoDigits(seconds % 60)

\* "00:00"
ZeroTime == <<48, 48, 58, 48, 48>>

\* format_time(seconds) where time.gmtime accepts the moment.
format_time(seconds) ==
    IF ~Truthy(seconds) \/ ~IsNumber(seconds) THEN ZeroTime
    ELSE strftime_MS(IntOf(seconds))

\* What a call of a function ends with: a returned value or a raised exception.
Returned(v) == [raised |-> "", value |-> v]
Raised(e) == [raised |-> e, value |-> <<>>]

\* time.gmtime of a moment before the epoch is platform-dependent: POSIX
\* returns the broken-down time, Windows raises OSError.
format_time_outcomes(seconds) ==
    {Returned(format_time(seconds))}
    \cup (IF Truthy(seconds) /\ IsNumber(seconds) /\ IntOf(seconds) < 0
          THEN {Raised("OSError")} ELSE {})

FormatInputs ==
    {PyNone, PyBool(TRUE), PyBool(FALSE), PyStr(<<>>), PyStr(<<49, 50>>)}
    \cup {PyInt(n) : n \in (0 - MaxTenths)..MaxSeconds}
    \cup {PyFloat(t) : t \in (0 - MaxTenths)..MaxTenths}

\* What a call of a pure function leaves alone.
outsideLib == <<appVars, app2Vars, v2Vars>>

LibInit ==
    /\ lib_pc = "idle"
    /\ lib_fn = ""
    /\ lib_arg = PyNone
    /\ lib_out = Returned(<<>>)

\* format_time(seconds) is called and returns or raises.
Call_format_time ==
    /\ lib_pc = "idle"
    /\ \E x \in FormatInputs : \E r \in format_time_outcomes(x) :
         /\ lib_arg' = x
         /\ lib_out' = r
    /\ lib_fn' = "format_time"
    /\ lib_pc' = "done"
    /\ UNCHANGED outsideLib

(***************************************************************************)
(* The deep link of a hit (elastic/app.py, app3.py, app_v2.py)             *)
(***************************************************************************)

\* Whether sub occurs in s from position i on.
OccursAt(s, sub, i) ==
    /\ i + Len(sub) - 1 <= Len(s)
    /\ SubSeq(s, i, i + Len(sub) - 1) = sub

\* sub in s
Contains(s, sub) == \E i \in 1..Len(s) : OccursAt(s, sub, i)

RECURSIVE SplitBy(_, _)
\* s.split(sep): the pieces of s between the occurrences of sep, from the left.
SplitBy(s, sep) ==
    IF ~Contains(s, sep) THEN <<s>>
    ELSE LET i == CHOOSE k \in 1..Len(s) :
                     /\ OccursAt(s, sep, k)
                     /\ \A j \in 1..(k - 1) : ~OccursAt(s, sep, j)
         IN  <<SubSeq(s, 1, i - 1)>> \o SplitBy(SubSeq(s, i + Len(sep), Len(s)), sep)

\* 'youtube.com/watch?v='
WatchMarker == <<121, 111, 117, 116, 117, 98, 101, 46, 99, 111, 109, 47, 119, 97, 116, 99, 104, 63, 118, 61>>
\* 'youtu.be/'
ShortMarker == <<121, 111, 117, 116, 117, 46, 98, 101, 47>>
\* 'v=', '&', '?'
VEquals == <<118, 61>>
Ampersand == <<38>>
QuestionMark == <<63>>
\* "https://www.youtube.com/watch?v="
LinkPrefix == <<104, 116, 116, 112, 115, 58, 47, 47, 119, 119, 119, 46, 121, 111, 117, 116, 117, 98, 101, 46, 99, 111, 109, 47, 119, 97, 116, 99, 104, 63, 118, 61>>
\* "&t="
TimeParam == <<38, 116, 61>>

\* str(n) of an integer.
IntStr(n) == IF n < 0 THEN <<45>> \o Digits(0 - n) ELSE Digits(n)

\* Mutant: the watch form keeps what follows the identifier.
MutVideoId(video_link) ==
    IF Contains(video_link, WatchMarker) THEN SplitBy(video_link, VEquals)[2]
    ELSE IF Contains(video_link, ShortMarker)
    THEN LET pieces == SplitBy(video_link, ShortMarker)
         IN  SplitBy(pieces[Len(pieces)], QuestionMark)[1]
    ELSE video_link

\* The if/elif/else that derives video_id from video_link.
video_id(video_link) ==
    IF Contains(video_link, WatchMarker)
    THEN SplitBy(SplitBy(video_link, VEquals)[2], Ampersand)[1]
    ELSE IF Contains(video_link, ShortMarker)
    THEN LET pieces == SplitBy(video_link, ShortMarker)
         IN  SplitBy(pieces[Len(pieces)], QuestionMark)[1]
    ELSE video_link

\* f"https://www.youtube.com/watch?v={video_id}&t={start_time}s"
youtube_link_with_time(video_link, start_time) ==
    LinkPrefix \o video_id(video_link) \o TimeParam \o IntStr(start_time) \o <<115>>

\* Longest video identifier and largest start (in seconds) of the model.
MaxIdLen == 3
MaxStart == 12

\* The characters of the identifiers: 'v', 'X', '-', '_'.
IdChars == {118, 88, 45, 95}
VideoIds == UNION {[1..n -> IdChars] : n \in 0..MaxIdLen}

\* What may follow the identifier in a watch URL: nothing, "&t=5s", "&v=zz";
\* and in a short URL: nothing, "?t=5".
WatchSuffixes == {<<>>, <<38, 116, 61, 53, 115>>, <<38, 118, 61, 122, 122>>}
ShortSuffixes == {<<>>, <<63, 116, 61, 53>>}
\* "https://youtu.be/"
ShortPrefix == <<104, 116, 116, 112, 115, 58, 47, 47, 121, 111, 117, 116, 117, 46, 98, 101, 47>>

\* The three stored forms of the link to video X.
LinkForms(X, wsuf, ssuf) ==
    [watch |-> LinkPrefix \o X \o wsuf,
     short |-> ShortPrefix \o X \o ssuf,
     bare |-> X]

\* The deep link is built for each of the three stored forms of one video.
Call_deep_link ==
    /\ lib_pc = "idle"
    /\ \E X \in VideoIds, start \in 0..MaxStart,
          wsuf \in WatchSuffixes, ssuf \in ShortSuffixes :
         LET links == LinkForms(X, wsuf, ssuf)
         IN  /\ lib_arg' = [id |-> X, start |-> start, links |-> links]
             /\ lib_out' = Returned([watch |-> youtube_link_with_time(links.watch, start),
                                     short |-> youtube_link_with_time(links.short, start),
                                     bare |-> youtube_link_with_time(links.bare, start)])
    /\ lib_fn' = "deep_link"
    /\ lib_pc' = "done"
    /\ UNCHANGED outsideLib

\* The longest text given to the normaliser.
MaxTextLen == 3

\* Fatha, superscript alef (U+0670), alef with hamza above, teh marbuta, yeh,
\* beh, the Arabic question mark (U+061F), "a", space, tab.
NormChars == {1614, 1648, 1571, 1577, 1610, 1576, 1567, 97, 32, 9}

NormTexts == UNION {[1..n -> NormChars] : n \in 0..MaxTextLen}

\* A list argument, its elements being of no account to the normaliser.
PyList(items) == [kind |-> "list", v |-> items]

\* The arguments the normaliser is called with: texts, and values that are
\* not text (None, numbers, lists).
NormInputs ==
    {PyStr(t) : t \in NormTexts}
    \cup {PyNone, PyInt(0), PyInt(5), PyFloat(0), PyFloat(15),
          PyList(<<>>), PyList(<<PyInt(1)>>)}

\* preprocess_arabic_text(text) for any Python value: `not text` answers ""
\* for every falsy value; re.sub raises TypeError ("expected string or
\* bytes-like object") for any other value that is not a str.
preprocess_call(text) ==
    IF ~Truthy(text) THEN Returned(<<>>)
    ELSE IF text.kind # "str" THEN Raised("TypeError")
    ELSE Returned(preprocess_arabic_text(text.v))

\* engine.preprocess_arabic_text(text) is called and returns or raises.
Call_preprocess ==
    /\ lib_pc = "idle"
    /\ \E text \in NormInputs :
         /\ lib_arg' = text
         /\ lib_out' = preprocess_call(text)
    /\ lib_fn' = "preprocess_arabic_text"
    /\ lib_pc' = "done"
    /\ UNCHANGED outsideLib

\* The most words a query given to expand_query has.
MaxQueryWords == 2

\* The words queries are made of: every key of the synonym table, the key
\* "hajj" written with a fatha, and a word that is not a key.
QueryWords ==
    {SynonymKeys[k] : k \in 1..Len(SynonymKeys)}
    \cup {<<1581, 1614, 1580>>, <<1603, 1578, 1575, 1576>>}

ExpandInputs ==
    UNION {{JoinSpace(ws) : ws \in [1..n -> QueryWords]} : n \in 0..MaxQueryWords}

\* engine.expand_query(query) is called and returns.
Call_expand_query ==
    /\ lib_pc = "idle"
    /\ \E query \in ExpandInputs :
         /\ lib_arg' = PyStr(query)
         /\ lib_out' = Returned(expand_query(query))
    /\ lib_fn' = "expand_query"
    /\ lib_pc' = "done"
    /\ UNCHANGED outsideLib

\* The embeddings create_hybrid_query is called with: None or a vector.
EmbeddingInputs == {NoEmbedding} \cup {[some |-> TRUE, vec |-> v] : v \in Vectors}

\* engine.create_enhanced_query(search_term) is called and returns.
Call_create_enhanced_query ==
    /\ lib_pc = "idle"
    /\ \E search_term \in ExpandInputs :
         /\ lib_arg' = PyStr(search_term)
         /\ lib_out' = Returned(create_enhanced_query(search_term))
    /\ lib_fn' = "create_enhanced_query"
    /\ lib_pc' = "done"
    /\ UNCHANGED outsideLib

\* engine.create_hybrid_query(search_term, query_embedding) is called and returns.
Call_create_hybrid_query ==
    /\ lib_pc = "idle"
    /\ \E search_term \in ExpandInputs, emb \in EmbeddingInputs :
         /\ lib_arg' = [kind |-> "args", v |-> search_term, embedding |-> emb]
         /\ lib_out' = Returned(create_hybrid_query(search_term, emb))
    /\ lib_fn' = "create_hybrid_query"
    /\ lib_pc' = "done"
    /\ UNCHANGED outsideLib

(***************************************************************************)
(* audio_transcriber.py: merge_short_segments                              *)
(***************************************************************************)

\* Mutant: a short segment is merged whatever the combined duration.
MutShouldMerge(current_segment, next_segment, min_duration, max_duration) ==
    current_segment.end - current_segment.start < min_duration

\* current_duration < min_duration and combined_duration <= max_duration
ShouldMerge(current_segment, next_segment, min_duration, max_duration) ==
    LET current_duration == current_segment.end - current_segment.start
        combined_duration == next_segment.end - current_segment.start
    IN  current_duration < min_duration /\ combined_duration <= max_duration

RECURSIVE MergeLoop(_, _, _, _, _)
\* The loop over segments[1:], with the segments merged so far and the one
\* being built; the last segment is appended when the input is used up.
MergeLoop(merged, current_segment, rest, min_duration, max_duration) ==
    IF rest = <<>> THEN Append(merged, current_segment)
    ELSE LET next_segment == rest[1]
         IN  IF ShouldMerge(current_segment, next_segment, min_duration, max_duration)
             THEN MergeLoop(merged,
                            [current_segment EXCEPT
                                !.end = next_segment.end,
                                !.text = @ \o <<32>> \o Strip(next_segment.text)],
                            Tail(rest), min_duration, max_duration)
             ELSE MergeLoop(Append(merged, current_segment), next_segment,
                            Tail(rest), min_duration, max_duration)

merge_short_segments(segments, min_duration, max_duration) ==
    IF segments = <<>> THEN segments
    ELSE MergeLoop(<<>>, segments[1], Tail(segments), min_duration, max_duration)

\* The most segments of an input, and the latest moment a segment ends at.
MaxSegments == 3
MaxTime == 5

\* The spans of the model: start <= end.
Spans == {sp \in (0..MaxTime) \X (0..MaxTime) : sp[1] <= sp[2]}

\* Time-ordered inputs: the segments in non-decreasing order of start, the
\* text of the i-th being the i-th letter.
SegmentInputs ==
    UNION {{[i \in 1..n |-> [start |-> f[i][1], end |-> f[i][2], text |-> <<96 + i>>]] :
               f \in {g \in [1..n -> Spans] : \A i \in 1..(n - 1) : g[i][1] <= g[i + 1][1]}} :
           n \in 0..MaxSegments}

\* The durations merge_short_segments is called with (min, max).
DurationInputs == {<<2, 3>>, <<2, 4>>}

\* merge_short_segments(segments, min_duration, max_duration) is called and returns.
Call_merge_short_segments ==
    /\ lib_pc = "idle"
    /\ \E segments \in SegmentInputs, d \in DurationInputs :
         /\ lib_arg' = [kind |-> "args", segments |-> segments,
                        min_duration |-> d[1], max_duration |-> d[2]]
         /\ lib_out' = Returned(merge_short_segments(segments, d[1], d[2]))
    /\ lib_fn' = "merge_short_segments"
    /\ lib_pc' = "done"
    /\ UNCHANGED outsideLib

\* The caller has the result; the next call can start.
Lib_Return ==
    /\ lib_pc = "done"
    /\ lib_pc' = "idle"
    /\ lib_fn' = ""
    /\ lib_arg' = PyNone
    /\ lib_out' = Returned(<<>>)
    /\ UNCHANGED outsideLib

LibNext ==
    \/ Call_format_time
    \/ Call_deep_link
    \/ Call_preprocess
    \/ Call_expand_query
    \/ Call_create_enhanced_query
    \/ Call_create_hybrid_query
    \/ Call_merge_short_segments
    \/ Lib_Return

(***************************************************************************)
(* app_v2.py: the documents of the index and the group fetch               *)
(***************************************************************************)

\* A document's _source. Texts are code points: "a" = <<97>>, "A" = <<65>>,
\* "b" = <<98>>. video_link is the short URL of video "X".
Source(doc_id, group_id, sequence, start, end) ==
    [doc_id |-> doc_id, group_id |-> group_id, sequence |-> sequence,
     start |-> start, end |-> end, video_link |-> Given(ShortPrefix \o <<88>>)]

\* The documents an index of the model is made of:
\*   1, 2  group "a", sequence 1 and 2      5  group "A", sequence 1
\*   3     group "a", no sequence           6  no group_id
\*   4     group "b", sequence 1            7  group "a", sequence null
\*                                          8  group "a", no sequence, no doc_id
CoreDocs ==
    << Source(Given(<<97, 49>>), Given(<<97>>), Given(PyInt(1)), Given(PyInt(0)), Given(PyInt(65))),
       Source(Given(<<97, 50>>), Given(<<97>>), Given(PyInt(2)), Given(PyInt(65)), Given(PyFloat(25))),
       Source(Given(<<97, 48>>), Given(<<97>>), Absent, Absent, Absent),
       Source(Given(<<98, 49>>), Given(<<98>>), Given(PyInt(1)), Given(PyInt(10)), Given(PyNone)),
       Source(Given(<<65, 49>>), Given(<<65>>), Given(PyInt(1)), Given(PyInt(3661)), Given(PyInt(3700))),
       Source(Given(<<110, 49>>), Absent, Given(PyInt(1)), Given(PyInt(5)), Given(PyInt(6))),
       Source(Given(<<97, 55>>), Given(<<97>>), Given(PyNone), Given(PyInt(7)), Given(PyInt(8))),
       Source(Absent, Given(<<97>>), Absent, Given(PyInt(20)), Given(PyInt(30))) >>

Core == 1..Len(CoreDocs)

\* Number of further segments of group "a" a large index holds.
Bulk == 100

\* The k-th further segment of group "a": doc_id "a-k", sequence 2 + k.
BulkDoc(k) ==
    Source(Given(<<97, 45>> \o Digits(k)), Given(<<97>>), Given(PyInt(2 + k)),
           Given(PyInt(k)), Given(PyInt(k + 1)))

\* The _source of document n.
Doc(n) == IF n \in Core THEN CoreDocs[n] ELSE BulkDoc(n - Len(CoreDocs))

\* An index: some of the core documents, and none or all of the further ones.
IndexDocs(idx) == idx.core \cup {Len(CoreDocs) + k : k \in 1..idx.bulk}

\* The core documents of the large indexes of the model.
BulkCores == {{1, 4}, {1, 4, 8}}

IndexInputs ==
    {[core |-> c, bulk |-> 0] : c \in SUBSET Core}
    \cup {[core |-> c, bulk |-> Bulk] : c \in BulkCores}

\* Largest number of hits the first search returns in the model.
MaxHits == 2

\* The ranked hits the first (vector) search may return on an index: up to n
\* distinct core documents, in any order.
HitInputs(idx, n) ==
    {<<>>}
    \cup (IF n >= 1 THEN {<<d>> : d \in idx.core} ELSE {})
    \cup (IF n >= 2 THEN {<<d, e>> : d \in idx.core, e \in idx.core} \ {<<d, d>> : d \in idx.core}
          ELSE {})

\* The _score of the hit of rank r (in tenths): better hits score higher.
HitScore(r) == 10 - r

RECURSIVE LexLess(_, _)
\* s < t for two texts, by code points.
LexLess(s, t) ==
    IF t = <<>> THEN FALSE
    ELSE IF s = <<>> THEN TRUE
    ELSE IF Head(s) # Head(t) THEN Head(s) < Head(t)
    ELSE LexLess(Tail(s), Tail(t))

\* Whether the document has an integer sequence (the sort puts the others last).
HasSequence(d) == d.sequence.has /\ d.sequence.val.kind = "int"

\* "sort": [{"group_id": asc}, {"sequence": asc}]: whether document m comes
\* before document n in the group fetch (equal keys: in index order).
FetchBefore(m, n) ==
    LET a == Doc(m)
        b == Doc(n)
    IN  IF a.group_id.val # b.group_id.val THEN LexLess(a.group_id.val, b.group_id.val)
        ELSE IF HasSequence(a) /\ HasSequence(b) /\ a.sequence.val.v # b.sequence.val.v
             THEN a.sequence.val.v < b.sequence.val.v
        ELSE IF HasSequence(a) # HasSequence(b) THEN HasSequence(a)
        ELSE m < n

\* The documents of set S in the order of the sort: each document is placed
\* after the documents that come before it.
FetchOrder(S) ==
    LET placed == {<<n, 1 + Cardinality({m \in S : m # n /\ FetchBefore(m, n)})>> : n \in S}
    IN  [k \in 1..Cardinality(S) |-> (CHOOSE p \in placed : p[2] = k)[1]]

\* es.search(body=fetch_body): the documents whose group_id is one of gids,
\* sorted, the first `size` of them.
GroupFetch(idx, gids, size) ==
    LET found == {n \in IndexDocs(idx) : Doc(n).group_id.has /\ Doc(n).group_id.val \in gids}
        all == FetchOrder(found)
    IN  SubSeq(all, 1, Min(size, Len(all)))

(***************************************************************************)
(* app_v2.py: the search handler (grouped results)                         *)
(***************************************************************************)

\* The requests of the model: an empty or a one-word query; no size, size 1, or
\* a size that is no number.
V2Requests ==
    [query : {Given(TermEmpty), Given(TermHajj)},
     size : {Absent, Given(IntSize(1)), Given(NonIntSize)}]

\* `if doc_id:` / `if src.get('group_id'):` / `if not gid:` on a text field.
HasText(f) == f.has /\ f.val # <<>>

\* matching_doc_ids after the loop over the hits.
CollectDocIds(hits) ==
    {Doc(hits[i]).doc_id.val : i \in {j \in 1..Len(hits) : HasText(Doc(hits[j]).doc_id)}}

\* initial_scores after the loop over the hits (a later hit overwrites).
CollectScores(hits) ==
    [id \in CollectDocIds(hits) |->
        LET at == {i \in 1..Len(hits) : Doc(hits[i]).doc_id = Given(id)}
        IN  HitScore(CHOOSE i \in at : \A j \in at : j <= i)]

\* group_ids after the loop over the hits.
CollectGroupIds(hits) ==
    {Doc(hits[i]).group_id.val : i \in {j \in 1..Len(hits) : HasText(Doc(hits[j]).group_id)}}

\* fetch_size = max(100, len(group_ids) * 10)
MinFetchSize == 100
FetchPerGroup == 10
Max(a, b) == IF a >= b THEN a ELSE b
fetch_size(gids) == Max(MinFetchSize, Cardinality(gids) * FetchPerGroup)

\* The keys of the dict `groups`, in insertion order: the group ids of the
\* fetched documents in the order of their first appearance.
GroupKeys(fetched) ==
    LET first == {i \in 1..Len(fetched) :
                    /\ HasText(Doc(fetched[i]).group_id)
                    /\ \A j \in 1..(i - 1) : Doc(fetched[j]).group_id # Doc(fetched[i]).group_id}
        at == AscSeq(first)
    IN  [k \in 1..Len(at) |-> Doc(fetched[at[k]]).group_id.val]

\* The text t in lower case (ASCII letters).
Lower(t) == [i \in 1..Len(t) |-> IF t[i] \in 65..90 THEN t[i] + 32 ELSE t[i]]

\* Mutant: the group ids are compared without regard to letter case.
MutGroupItems(fetched, gid) ==
    LET InGroup(n) == HasText(Doc(n).group_id) /\ Lower(Doc(n).group_id.val) = Lower(gid)
    IN  SelectSeq(fetched, InGroup)

\* groups[gid]: the fetched documents of the group, in fetch order.
GroupItems(fetched, gid) ==
    LET InGroup(n) == Doc(n).group_id = Given(gid)
    IN  SelectSeq(fetched, InGroup)

\* 'sequence': src.get('sequence', 0)
ItemSequence(n) == DataGet(Doc(n).sequence, PyInt(0))

\* sorted(items, key=...) compares the keys as soon as there are two items;
\* None does not compare.
SortRaises(items) ==
    /\ Len(items) >= 2
    /\ \E i \in 1..Len(items) : ItemSequence(items[i]).kind # "int"

\* The TypeError sorted raises for a list (of fewer than 64 items) with a None
\* key: the sort scans the list comparing key[i] < key[i-1], then inserts each
\* later item by comparing it with earlier ones, so the first None key is the
\* left operand of the failing comparison, except at the head of the list,
\* where the second key is compared with it.
SortTypeError(items) ==
    LET IsNone(i) == ItemSequence(items[i]).kind # "int"
        none == CHOOSE i \in 1..Len(items) :
                    IsNone(i) /\ \A j \in 1..(i - 1) : ~IsNone(j)
    IN  [kind |-> "type_error",
         msg |-> IF none > 1
                 THEN "'<' not supported between instances of 'NoneType' and 'int'"
                 ELSE IF IsNone(2)
                 THEN "'<' not supported between instances of 'NoneType' and 'NoneType'"
                 ELSE "'<' not supported between instances of 'int' and 'NoneType'"]

\* The exceptions the sort of a group can raise.
SortTypeErrors ==
    {[kind |-> "type_error", msg |-> m] :
        m \in {"'<' not supported between instances of 'NoneType' and 'int'",
               "'<' not supported between instances of 'NoneType' and 'NoneType'",
               "'<' not supported between instances of 'int' and 'NoneType'"}}

\* sorted(items, key=lambda x: x.get('sequence', 0)): a stable sort, by
\* ascending sequence, items of equal sequence in the order they have in
\* `items` (a single item is never compared).
items_sorted(items) ==
    IF Len(items) <= 1 THEN items
    ELSE LET Key(i) == ItemSequence(items[i]).v
             Before(i, j) == Key(i) < Key(j) \/ (Key(i) = Key(j) /\ i < j)
             placed == {<<i, 1 + Cardinality({j \in 1..Len(items) : Before(j, i)})>> :
                           i \in 1..Len(items)}
         IN  [k \in 1..Len(items) |-> items[(CHOOSE p \in placed : p[2] = k)[1]]]

\* start_time = int(it.get('start') or 0)
start_time(n) ==
    LET v == DataGet(Doc(n).start, PyInt(0))
    IN  IF Truthy(v) THEN IntOf(v) ELSE 0

\* 'is_match': src.get('doc_id') in matching_doc_ids,
\* 'score': initial_scores.get(src.get('doc_id'), 0)
ItemMatch(n, ids, scores) ==
    LET id == Doc(n).doc_id
        hit == id.has /\ id.val \in ids
    IN  [is_match |-> hit, score |-> IF hit THEN scores[id.val] ELSE 0]

\* One entry of formatted_items (the fields question, answer and is_follow_up,
\* copied as they are, are left out).
FormatItem(n, ids, scores) ==
    [doc_id |-> Doc(n).doc_id,
     start |-> format_time(PyInt(start_time(n))),
     end |-> format_time(DataGet(Doc(n).end, PyInt(0))),
     video_link |-> Doc(n).video_link,
     youtube_link_with_time |->
        youtube_link_with_time(DataGet(Doc(n).video_link, <<>>), start_time(n)),
     is_match |-> ItemMatch(n, ids, scores).is_match,
     score |-> ItemMatch(n, ids, scores).score]

\* for gid, items in groups.items(): per group, the documents behind its items
\* once sorted.
Emitted(fetched) ==
    LET keys == GroupKeys(fetched)
    IN  [k \in 1..Len(keys) |->
            [group_id |-> keys[k], docs |-> items_sorted(GroupItems(fetched, keys[k]))]]

\* results
Results(emitted, ids, scores) ==
    [k \in 1..Len(emitted) |->
        [group_id |-> emitted[k].group_id,
         items |-> [i \in 1..Len(emitted[k].docs) |->
                        FormatItem(emitted[k].docs[i], ids, scores)]]]

V2Success(results) ==
    [status |-> 200,
     body |-> [results |-> results, total |-> Len(results), returned |-> Len(results)]]
\* return jsonify({'results': [], 'total': 0, 'returned': 0})
V2Empty == [status |-> 200, body |-> [results |-> <<>>, total |-> 0, returned |-> 0]]
\* return jsonify({'error': str(e), 'results': [], 'total': 0}), 500
V2Error(e) ==
    [status |-> 500, body |-> [error |-> e.msg, results |-> <<>>, total |-> 0]]

NoIndex == [core |-> {}, bulk |-> 0]
NoScores == [id \in {} |-> 0]

\* What the handler of app_v2.py leaves alone.
outsideV2 == <<appVars, app2Vars, libVars>>

V2Init ==
    /\ v2_pc = "idle"
    /\ v2_data = [query |-> Absent, size |-> Absent]
    /\ v2_index = NoIndex
    /\ v2_hits = <<>>
    /\ matching_doc_ids = {}
    /\ group_ids = {}
    /\ initial_scores = NoScores
    /\ v2_fetched = <<>>
    /\ v2_groups = <<>>
    /\ v2_raised = NoFailure
    /\ v2_resp = NoResponse

V2Respond(r) == v2_resp' = r /\ v2_pc' = "done"

\* search up to the try: read the request, reject an empty term, build the
\* retriever (min(size * 2, 100) raises on a size that is no number).
V2_Begin ==
    /\ v2_pc = "idle"
    /\ \E d \in V2Requests :
        /\ v2_data' = d
        /\ IF RejectsTerm(search_term_of(d)) THEN V2Respond(EmptyResponse)
           ELSE IF FetchSizeRaises(size_of(d)) THEN V2Respond(Unhandled500)
           ELSE v2_pc' = "search" /\ v2_resp' = NoResponse
    /\ UNCHANGED <<v2_index, v2_hits, matching_doc_ids, group_ids, initial_scores,
                   v2_fetched, v2_groups, v2_raised>>
    /\ UNCHANGED outsideV2

\* The first es.search (the vector search) and the loop over its hits.
V2_Search ==
    /\ v2_pc = "search"
    /\ \/ \E idx \in IndexInputs :
            \E hits \in HitInputs(idx, Min(FetchSize(size_of(v2_data)), MaxHits)) :
              /\ v2_index' = idx
              /\ v2_hits' = hits
              /\ matching_doc_ids' = CollectDocIds(hits)
              /\ initial_scores' = CollectScores(hits)
              /\ group_ids' = CollectGroupIds(hits)
              /\ IF CollectGroupIds(hits) = {} THEN V2Respond(V2Empty)
                 ELSE v2_pc' = "fetch" /\ v2_resp' = v2_resp
              /\ UNCHANGED v2_raised
       \/ \E e \in Failures :
              /\ v2_raised' = e
              /\ V2Respond(V2Error(e))
              /\ UNCHANGED <<v2_index, v2_hits, matching_doc_ids, group_ids, initial_scores>>
    /\ UNCHANGED <<v2_data, v2_fetched, v2_groups>>
    /\ UNCHANGED outsideV2

\* The groups, by their place in the loop over groups.items(), whose sort raises.
RaisingGroups(fetched) ==
    {k \in 1..Len(GroupKeys(fetched)) :
        SortRaises(GroupItems(fetched, GroupKeys(fetched)[k]))}

\* The exception that ends the loop: that of the first group whose sort raises.
FirstSortError(fetched) ==
    LET k == CHOOSE a \in RaisingGroups(fetched) : \A b \in RaisingGroups(fetched) : a <= b
    IN  SortTypeError(GroupItems(fetched, GroupKeys(fetched)[k]))

\* The group fetch, the partition into groups, the sort of each group, the
\* formatting of the items and the response.
V2_Fetch ==
    /\ v2_pc = "fetch"
    /\ \/ \E fetched \in {GroupFetch(v2_index, group_ids, fetch_size(group_ids))} :
            /\ v2_fetched' = fetched
            /\ IF RaisingGroups(fetched) # {}
               THEN /\ v2_raised' = FirstSortError(fetched)
                    /\ v2_groups' = <<>>
                    /\ V2Respond(V2Error(FirstSortError(fetched)))
               ELSE /\ v2_groups' = Emitted(fetched)
                    /\ V2Respond(V2Success(Results(Emitted(fetched), matching_doc_ids,
                                                   initial_scores)))
                    /\ UNCHANGED v2_raised
       \/ \E e \in Failures :
              /\ v2_raised' = e
              /\ V2Respond(V2Error(e))
              /\ UNCHANGED <<v2_fetched, v2_groups>>
    /\ UNCHANGED <<v2_data, v2_index, v2_hits, matching_doc_ids, group_ids, initial_scores>>
    /\ UNCHANGED outsideV2

\* The response is sent; the handler waits for the next request.
V2_End ==
    /\ v2_pc = "done"
    /\ v2_pc' = "idle"
    /\ v2_data' = [query |-> Absent, size |-> Absent]
    /\ v2_index' = NoIndex
    /\ v2_hits' = <<>>
    /\ matching_doc_ids' = {}
    /\ group_ids' = {}
    /\ initial_scores' = NoScores
    /\ v2_fetched' = <<>>
    /\ v2_groups' = <<>>
    /\ v2_raised' = NoFailure
    /\ v2_resp' = NoResponse
    /\ UNCHANGED outsideV2

V2Next ==
    \/ V2_Begin
    \/ V2_Search
    \/ V2_Fetch
    \/ V2_End

(***************************************************************************)
(* Specifications                                                          *)
(***************************************************************************)

vars == <<appVars, app2Vars, libVars, v2Vars>>

\* Each application runs in a process of its own: while one serves requests,
\* the state of the other stays as it is before its start.
AppIdle ==
    /\ AppInit
    /\ arabert = FALSE

App2Idle ==
    /\ App2Init
    /\ es = None

\* elastic/app.py serving requests one after the other.
Init == AppInit /\ App2Idle /\ LibInit /\ V2Init
Next == AppNext
Spec == Init /\ [][Next]_vars

\* elastic/app2.py serving NProcs requests concurrently.
Init2 == App2Init /\ AppIdle /\ LibInit /\ V2Init
Next2 == App2Next
Spec2 == Init2 /\ [][Next2]_vars

\* The pure functions, called one at a time on inputs drawn from bounded sets.
Init3 == LibInit /\ AppIdle /\ App2Idle /\ V2Init
Next3 == LibNext
Spec3 == Init3 /\ [][Next3]_vars

\* app_v2.py serving requests one after the other.
Init4 == V2Init /\ AppIdle /\ App2Idle /\ LibInit
Next4 == V2Next
Spec4 == Init4 /\ [][Next4]_vars

(***************************************************************************)
(* Claims about elastic/app.py, checked under Spec                         *)
(***************************************************************************)

Done == pc = "done"
\* A success response built by one of the three search functions.
SearchSucceeded == Done /\ resp.status = 200 /\ producer # ""

FailedAttempts == {i \in 1..Len(attempts) : attempts[i].out = "failed"}
FirstOf(S) == CHOOSE a \in S : \A b \in S : a <= b
IsQueryCall(c) == c.op \in {"count", "search"}

\* The label that would name search function fn after a fallback.
FallbackLabel(fn) ==
    IF fn = "basic" THEN "basic_fallback"
    ELSE IF fn = "enhanced" THEN "enhanced_fallback"
    ELSE "semantic_fallback"

\* C1: the mode reported in a success response of search names the search
\* function that produced the returned hits (by its own name or by its
\* fallback label).
C1_ModeNamesStrategy ==
    SearchSucceeded =>
        \/ resp.body.mode = producer
        \/ resp.body.mode = FallbackLabel(producer)

\* The embedding step raised and every call to the index service succeeded.
EmbeddingFailedAlone ==
    /\ Done
    /\ \E i \in 1..Len(calls) : calls[i].op = "embed" /\ calls[i].err # ""
    /\ \A i \in 1..Len(calls) : calls[i].op # "embed" => calls[i].err = ""

\* C2: when only the embedding step fails in semantic mode, the next query
\* sent to the index is the enhanced lexical query and the request ends with a
\* success response carrying that query's hits.
C2_EmbeddingFailureSilent ==
    EmbeddingFailedAlone =>
        LET i == CHOOSE k \in 1..Len(calls) : calls[k].op = "embed"
            lexical == create_enhanced_query(term)
        IN  /\ \E j \in (i + 1)..Len(calls) :
                  /\ IsQueryCall(calls[j])
                  /\ calls[j].query = lexical
                  /\ \A k \in (i + 1)..(j - 1) : ~IsQueryCall(calls[k])
            /\ resp.status = 200
            /\ producer = "enhanced"
            /\ resp.body.results = IndexSearch(content, lexical, FetchSize(size_of(data)))

\* C3 (as claimed): after a first failed search attempt at most one further
\* attempt is made in the same request, and a second failure is surfaced.
C3_AtMostOneRetry ==
    /\ FailedAttempts # {} => Len(attempts) - FirstOf(FailedAttempts) <= 1
    /\ (Done /\ Cardinality(FailedAttempts) >= 2) => resp.status >= 500

\* C3 (amended): after a first failed search attempt at most two further
\* attempts are made in the same request (the ladder semantic, enhanced, basic
\* fallback), and a request ends in failure exactly when its last attempt, the
\* basic fallback, failed; that failure is surfaced with status 500.
C3_AtMostTwoRetries ==
    /\ FailedAttempts # {} => Len(attempts) - FirstOf(FailedAttempts) <= 2
    /\ (Done /\ attempts # <<>>) =>
          IF attempts[Len(attempts)].out = "failed"
          THEN /\ resp.status = 500
               /\ phase = "fallback"
               /\ attempts[Len(attempts)].fn = "basic"
          ELSE resp.status = 200

\* Two retries happened and the third attempt failed too.
C3_Witness ==
    /\ Done
    /\ Len(attempts) = 3
    /\ FailedAttempts = {1, 2, 3}
    /\ resp.status = 500

NextSimpler(fn) == IF fn = "semantic" THEN "enhanced" ELSE "basic"

\* C4: when an index-service call fails, the next attempt (if any) is in the
\* next-simpler mode of semantic, enhanced, basic; and a failing basic attempt
\* is the last attempt of the request, which ends in a failure response.
C4_LadderOrder ==
    \A i \in 1..Len(attempts) :
        (attempts[i].out = "failed" /\ attempts[i].cause = "index") =>
            IF attempts[i].fn = "basic"
            THEN i = Len(attempts) /\ (Done => resp.status >= 500)
            ELSE i < Len(attempts) => attempts[i + 1].fn = NextSimpler(attempts[i].fn)

\* The count call and the fetch call of one attempt.
CountFetchPairs ==
    {p \in (1..Len(calls)) \X (1..Len(calls)) :
        /\ calls[p[1]].op = "count"
        /\ calls[p[2]].op = "search"
        /\ calls[p[1]].att = calls[p[2]].att}

\* C5 (as claimed): in every mode the count call and the fetch call of an
\* attempt are issued with the same query against the same index.
C5_SameQueryEveryMode ==
    \A p \in CountFetchPairs :
        /\ calls[p[1]].query = calls[p[2]].query
        /\ calls[p[1]].index = calls[p[2]].index

\* C5 (amended): the count and the fetch of an attempt go to the same index;
\* in basic and enhanced mode with the same query; in semantic mode the count
\* is issued with the enhanced lexical query, which is the second (lexical)
\* alternative of the hybrid query the fetch is issued with, and differs from it.
C5_SameQueryLexicalModes ==
    \A p \in CountFetchPairs :
        /\ calls[p[1]].index = calls[p[2]].index
        /\ IF calls[p[1]].fn = "semantic"
           THEN /\ calls[p[1]].query = create_enhanced_query(term)
                /\ calls[p[2]].query.bool.should[2] = calls[p[1]].query
                /\ calls[p[2]].query # calls[p[1]].query
           ELSE calls[p[1]].query = calls[p[2]].query

\* A request in which a semantic search and then an enhanced search each
\* issued their count and their fetch, the enhanced one answering the request.
C5_Witness ==
    /\ SearchSucceeded
    /\ producer = "enhanced"
    /\ \E p \in CountFetchPairs : calls[p[1]].fn = "semantic"
    /\ \E p \in CountFetchPairs : calls[p[1]].fn = "enhanced" /\ calls[p[2]].err = ""

\* C6 (as claimed): every success response has total >= returned.
C6_TotalCoversReturned ==
    SearchSucceeded => resp.body.total >= resp.body.returned

\* C6 (amended): a success response whose hits come from the basic or the
\* enhanced search (the basic fallback included) has total >= returned; in
\* semantic mode total is the number of matches of the lexical query alone,
\* whatever number of hits the hybrid query returned.
C6_TotalCoversReturnedLexical ==
    SearchSucceeded =>
        /\ resp.body.returned = Len(resp.body.results)
        /\ IF producer = "semantic"
           THEN resp.body.total = IndexCount(content, create_enhanced_query(term))
           ELSE resp.body.total >= resp.body.returned

\* An enhanced search that found more than it returned, and returned something.
C6_Witness ==
    /\ SearchSucceeded
    /\ producer = "enhanced"
    /\ resp.body.returned >= 1
    /\ resp.body.total > resp.body.returned

\* The size the spec asks for: the default for a size that is no positive
\* integer, min(size, 1000) otherwise.
ClampedSize(sz) ==
    IF ~sz.int \/ sz.v <= 0 THEN DefaultSize ELSE Min(sz.v, MaxFetch)

\* C7: the size passed to every index search call is in 1..1000 and is the
\* clamped value of the requested size.
C7_SizeClamped ==
    \A i \in 1..Len(calls) :
        calls[i].op = "search" =>
            /\ calls[i].size \in 1..MaxFetch
            /\ calls[i].size = ClampedSize(size_of(data))

\* C9: after an index-service call failed with an authentication or a
\* not-found error, no further count or search is issued in the request, and
\* the request ends with status 503 and 404 respectively.
C9_AuthNotFoundNotRetried ==
    \A i \in 1..Len(calls) :
        calls[i].err \in {"auth", "not_found"} =>
            /\ \A j \in (i + 1)..Len(calls) : ~IsQueryCall(calls[j])
            /\ Done => resp.status = (IF calls[i].err = "auth" THEN 503 ELSE 404)

(***************************************************************************)
(* Claims about elastic/app2.py, checked under Spec2                       *)
(***************************************************************************)

Done2(p) == pc2[p] = "done" /\ route[p] = "search"

\* The request carries a JSON body whose query is missing or empty once trimmed.
TermMissing(p) == data2[p].json /\ search_term2(data2[p]) = <<>>

\* C8: a request whose query term is missing or empty after trimming is
\* rejected (status 400) without any call (ping, count, search, reconnect)
\* to the index service.
C8_NoCallOnInvalidTerm ==
    \A p \in Procs :
        (Done2(p) /\ TermMissing(p)) =>
            /\ calls2[p] = <<>>
            /\ resp2[p].status = 400

\* C10: two requests that fail with internal exceptions receive identical
\* response bodies, whatever the messages of the exceptions.
C10_GenericFailureBody ==
    \A p, q \in Procs :
        (/\ Done2(p) /\ raised2[p].kind = "internal"
         /\ Done2(q) /\ raised2[q].kind = "internal")
        => resp2[p].body = resp2[q].body

(***************************************************************************)
(* What elastic/app2.py does where elastic/app.py departs from the claims  *)
(***************************************************************************)

\* Every search call of app2.py carries the clamped size.
App2_SizeClamped ==
    \A p \in Procs : \A i \in 1..Len(calls2[p]) :
        calls2[p][i].op = "search" =>
            /\ calls2[p][i].size \in 1..MaxFetch
            /\ calls2[p][i].size = ClampedSize(DataGet(data2[p].size, IntSize(DefaultSize)))

\* app2.py issues one search per request and maps an authentication error to
\* 503 and a missing index to 404.
App2_AuthNotFoundNotRetried ==
    \A p \in Procs :
        /\ Cardinality({i \in 1..Len(calls2[p]) : calls2[p][i].op = "search"}) <= 1
        /\ (Done2(p) /\ raised2[p].kind = "auth") => resp2[p].status = 503
        /\ (Done2(p) /\ raised2[p].kind = "not_found") => resp2[p].status = 404

\* The requests that are reconnecting: get_elasticsearch_client is being called
\* or has returned a handle that is not stored in the global yet.
Reconnecting == {p \in Procs : pc2[p] \in {"reconnect", "assign"}}

\* C11: at most one reconnection (get_elasticsearch_client call) is in flight
\* at any time, and a request that passed the connection check reaches
\* es.search with a client handle (the old one or the new one), never with None.
C11_OneReconnectInFlight ==
    /\ Cardinality(Reconnecting) <= 1
    /\ \A p \in Procs : pc2[p] = "search" => es # None

(***************************************************************************)
(* Claims about the pure functions, checked under Spec3                     *)
(***************************************************************************)

Called(fn) == lib_pc = "done" /\ lib_fn = fn

\* n zero-padded to at least two digits.
PadTwo(n) == IF n < 10 THEN <<48>> \o Digits(n) ELSE Digits(n)

\* C12: for a whole number of seconds s >= 0, format_time(s) is floor(s/60)
\* padded to at least two digits, a colon, and s mod 60 padded to two digits
\* (minutes do not wrap at 60); None formats as "00:00".
C12_FormatTotalMinutes ==
    Called("format_time") =>
        /\ (lib_arg.kind = "int" /\ lib_arg.v >= 0) =>
              lib_out = Returned(PadTwo(lib_arg.v \div 60) \o <<58>> \o PadTwo(lib_arg.v % 60))
        /\ lib_arg = PyNone => lib_out = Returned(ZeroTime)

IsNegative(x) ==
    \/ x.kind = "int" /\ x.v < 0
    \/ x.kind = "float" /\ x.tenths < 0

\* C13: format_time never raises; a negative number, a non-numeric value and
\* None all format as "00:00".
C13_FormatClampsNegative ==
    Called("format_time") =>
        /\ lib_out.raised = ""
        /\ (IsNegative(lib_arg) \/ lib_arg.kind \in {"none", "str"}) =>
              lib_out.value = ZeroTime

\* Whether text s ends with text t.
EndsWith(s, t) == Len(t) <= Len(s) /\ SubSeq(s, Len(s) - Len(t) + 1, Len(s)) = t

\* C14: the watch URL (with or without &-parameters), the short URL (with or
\* without ?-parameters) and the bare identifier of video X, with start s, all
\* yield the same deep link, which ends with v=X&t=<s>s.
C14_DeepLinkSameForAllForms ==
    Called("deep_link") =>
        LET out == lib_out.value
        IN  /\ lib_out.raised = ""
            /\ out.watch = out.bare
            /\ out.short = out.bare
            /\ EndsWith(out.bare, VEquals \o lib_arg.id \o TimeParam
                                  \o Digits(lib_arg.start) \o <<115>>)

\* A video whose identifier has the letter v in it, stored as a watch URL
\* followed by &-parameters and as a short URL followed by ?-parameters, with a
\* start of two digits.
C14_Witness ==
    /\ Called("deep_link")
    /\ Len(lib_arg.id) = 3
    /\ lib_arg.id[2] = 118
    /\ lib_arg.start >= 10
    /\ Len(lib_arg.links.watch) > Len(LinkPrefix) + 3
    /\ Len(lib_arg.links.short) > Len(ShortPrefix) + 3
    /\ lib_out.value.short = lib_out.value.watch

(***************************************************************************)
(* Claims about app_v2.py (grouped results), checked under Spec4            *)
(***************************************************************************)

\* The request ended with a success response built from the group fetch.
V2Grouped == v2_pc = "done" /\ v2_resp.status = 200 /\ v2_fetched # <<>>

\* The group ids of the response, in the order they are emitted.
EmittedIds == [k \in 1..Len(v2_resp.body.results) |-> v2_resp.body.results[k].group_id]

\* The rank of the first hit of group gid among the ranked hits (0: none).
FirstHitOf(gid) ==
    LET at == {i \in 1..Len(v2_hits) : Doc(v2_hits[i]).group_id = Given(gid)}
    IN  IF at = {} THEN 0 ELSE CHOOSE i \in at : \A j \in at : i <= j

\* C15: the groups are emitted in the order in which their group_id is first
\* encountered in the ranked hits.
C15_GroupsInHitOrder ==
    V2Grouped =>
        \A k, l \in 1..Len(EmittedIds) :
            (k < l /\ FirstHitOf(EmittedIds[k]) > 0 /\ FirstHitOf(EmittedIds[l]) > 0)
                => FirstHitOf(EmittedIds[k]) < FirstHitOf(EmittedIds[l])

\* C16: for every group_id among the ranked hits exactly one group with that
\* id is in the response.
C16_OneGroupPerHitGroup ==
    V2Grouped =>
        \A gid \in CollectGroupIds(v2_hits) :
            Cardinality({k \in 1..Len(EmittedIds) : EmittedIds[k] = gid}) = 1

\* The sequence of document n as the handler reads it (0 when absent).
SeqKey(n) == ItemSequence(n).v
\* Where document n is in the group fetch.
PosInFetch(n) == CHOOSE i \in 1..Len(v2_fetched) : v2_fetched[i] = n
\* A group of the fetch with two or more documents, one with a null sequence.
NullInGroup ==
    \E i, j \in 1..Len(v2_fetched) :
        /\ i # j
        /\ Doc(v2_fetched[i]).group_id = Doc(v2_fetched[j]).group_id
        /\ Doc(v2_fetched[i]).sequence = Given(PyNone)

\* C17: within every emitted group the items are in strictly ascending
\* sequence order (an absent sequence counting as 0), and a missing sequence
\* never makes the request fail.
C17_StrictSequenceOrder ==
    /\ v2_raised \notin SortTypeErrors
    /\ V2Grouped =>
          \A k \in 1..Len(v2_groups) :
              \A i, j \in 1..Len(v2_groups[k].docs) :
                  i < j => SeqKey(v2_groups[k].docs[i]) < SeqKey(v2_groups[k].docs[j])

\* The order app_v2.py does give: within every emitted group the items are in
\* ascending sequence order (a sequence key that is absent counting as 0),
\* items of equal sequence in the order the fetch returned them; the request
\* fails with status 500 exactly when a fetched group of two or more documents
\* has a null sequence.
V2_SequenceOrderStable ==
    /\ V2Grouped =>
          /\ ~NullInGroup
          /\ \A k \in 1..Len(v2_groups) :
                \A i, j \in 1..Len(v2_groups[k].docs) :
                    i < j =>
                        LET a == v2_groups[k].docs[i]
                            b == v2_groups[k].docs[j]
                        IN  \/ SeqKey(a) < SeqKey(b)
                            \/ SeqKey(a) = SeqKey(b) /\ PosInFetch(a) < PosInFetch(b)
    /\ (v2_pc = "done" /\ v2_raised \in SortTypeErrors) =>
          /\ v2_resp.status = 500
          /\ NullInGroup

\* The rank at which document n is among the ranked hits (0: it is no hit).
HitRankOf(n) ==
    LET at == {h \in 1..Len(v2_hits) : v2_hits[h] = n}
    IN  IF at = {} THEN 0 ELSE CHOOSE h \in at : TRUE

\* C18: an item that is among the initial ranked hits has is_match true and
\* the score that hit had; every other item has is_match false and score 0.
C18_MatchFlagAndScore ==
    V2Grouped =>
        \A k \in 1..Len(v2_groups) :
            \A i \in 1..Len(v2_groups[k].docs) :
                LET item == v2_resp.body.results[k].items[i]
                    h == HitRankOf(v2_groups[k].docs[i])
                IN  IF h > 0
                    THEN item.is_match /\ item.score = HitScore(h)
                    ELSE ~item.is_match /\ item.score = 0

\* What app_v2.py does give: the items flagged are the hits whose _source has
\* a truthy doc_id, each with its hit's score; a hit without one is emitted
\* with is_match false and score 0, like the items that are no hit.
V2_MatchByTruthyDocId ==
    V2Grouped =>
        \A k \in 1..Len(v2_groups) :
            \A i \in 1..Len(v2_groups[k].docs) :
                LET item == v2_resp.body.results[k].items[i]
                    n == v2_groups[k].docs[i]
                    h == HitRankOf(n)
                IN  IF h > 0 /\ HasText(Doc(n).doc_id)
                    THEN item.is_match /\ item.score = HitScore(h)
                    ELSE ~item.is_match /\ item.score = 0

\* C19: every item of an emitted group comes from a document whose group_id is
\* exactly the group's id, and no two emitted groups have the same id: two
\* fetched documents whose group_ids differ are in different groups.
C19_NoMergeAcrossGroupIds ==
    V2Grouped =>
        /\ \A k \in 1..Len(v2_groups) :
              /\ v2_resp.body.results[k].group_id = v2_groups[k].group_id
              /\ Len(v2_resp.body.results[k].items) = Len(v2_groups[k].docs)
              /\ \A i \in 1..Len(v2_groups[k].docs) :
                    Doc(v2_groups[k].docs[i]).group_id = Given(v2_groups[k].group_id)
        /\ \A k, l \in 1..Len(v2_groups) :
              k # l => v2_groups[k].group_id # v2_groups[l].group_id

\* The fetch returned segments of group "a" and of group "A", and both groups
\* are in the response.
C19_Witness ==
    /\ V2Grouped
    /\ \E k, l \in 1..Len(EmittedIds) :
          /\ EmittedIds[k] = <<97>>
          /\ EmittedIds[l] = <<65>>
          /\ Len(v2_groups[k].docs) >= 2


\* C20: preprocess_arabic_text is idempotent: normalising a text the
\* normaliser returned gives that text back.
C20_NormaliserIdempotent ==
    (Called("preprocess_arabic_text") /\ lib_arg.kind = "str") =>
        /\ lib_out.raised = ""
        /\ preprocess_arabic_text(lib_out.value) = lib_out.value

\* A text with a diacritic, a yeh and a tab was normalised to another text.
C20_Witness ==
    /\ Called("preprocess_arabic_text")
    /\ lib_arg.kind = "str"
    /\ \E i, j, k \in 1..Len(lib_arg.v) :
         /\ IsDiacritic(lib_arg.v[i])
         /\ lib_arg.v[j] = 1610
         /\ lib_arg.v[k] = 9
    /\ lib_out.value # <<>>
    /\ lib_out.value # lib_arg.v


\* A diacritical mark of the Arabic script: a combining mark of the Arabic
\* block (U+0610-061A, U+064B-065F, U+0670, U+06D6-06DC, U+06DF-06E4,
\* U+06E7-06E8, U+06EA-06ED).
IsArabicMark(c) ==
    \/ c \in 1552..1562
    \/ c \in 1611..1631
    \/ c = 1648
    \/ c \in 1750..1756
    \/ c \in 1759..1764
    \/ c \in 1767..1768
    \/ c \in 1770..1773

\* A letter of the Arabic block (U+0620-064A, U+066E-066F, U+0671-06D3,
\* U+06D5, U+06E5-06E6, U+06EE-06EF, U+06FA-06FC, U+06FF).
IsArabicLetter(c) ==
    \/ c \in 1568..1610
    \/ c \in 1646..1647
    \/ c \in 1649..1747
    \/ c = 1749
    \/ c \in 1765..1766
    \/ c \in 1774..1775
    \/ c \in 1786..1788
    \/ c = 1791

\* The letter variants the normaliser folds away.
UnfoldedVariants == {1570, 1571, 1573, 1577, 1610}

\* Words separated by single spaces, nothing before the first or after the last.
SingleSpaced(t) ==
    /\ \A i \in 1..Len(t) : IsSpace(t[i]) => t[i] = 32
    /\ t # <<>> => (t[1] # 32 /\ t[Len(t)] # 32)
    /\ \A i \in 1..(Len(t) - 1) : ~(t[i] = 32 /\ t[i + 1] = 32)

\* C21: the normalised text of every input string has no diacritical mark,
\* no unfolded letter variant (alef variants, teh marbuta, yeh), and is made
\* of Arabic letters only, separated by single spaces, with no leading or
\* trailing whitespace.
C21_NormalisedOutputClean ==
    (Called("preprocess_arabic_text") /\ lib_arg.kind = "str") =>
        LET out == lib_out.value
        IN  /\ lib_out.raised = ""
            /\ \A i \in 1..Len(out) :
                  /\ ~IsArabicMark(out[i])
                  /\ out[i] \notin UnfoldedVariants
                  /\ IsArabicLetter(out[i]) \/ out[i] = 32
            /\ SingleSpaced(out)

\* What the normaliser does give for every input string: no character of
\* U+064B-0652, none of the five folded letters, only characters of the
\* block U+0600-06FF and single spaces, nothing around the text.
Norm_OutputInBlock ==
    (Called("preprocess_arabic_text") /\ lib_arg.kind = "str") =>
        LET out == lib_out.value
        IN  /\ lib_out.raised = ""
            /\ \A i \in 1..Len(out) :
                  /\ ~IsDiacritic(out[i])
                  /\ out[i] \notin UnfoldedVariants
                  /\ out[i] \in 1536..1791 \/ out[i] = 32
            /\ SingleSpaced(out)

\* C22: the normaliser never raises; for the empty string and for every
\* input that is not text it returns the empty string.
C22_NormaliserNeverRaises ==
    Called("preprocess_arabic_text") =>
        /\ lib_out.raised = ""
        /\ (lib_arg.kind # "str" \/ lib_arg.v = <<>>) => lib_out = Returned(<<>>)


NoDuplicates(terms) ==
    \A i, j \in 1..Len(terms) : terms[i] = terms[j] => i = j

\* C23: expand_query returns a list whose first element is the normalised
\* query, that has no element twice, and that has exactly one element when no
\* token of the query is a key of the synonym table.
C23_ExpandFirstUniqueSingle ==
    Called("expand_query") =>
        LET out == lib_out.value
            tokens == Split(lib_arg.v)
        IN  /\ Len(out) >= 1
            /\ out[1] = preprocess_arabic_text(lib_arg.v)
            /\ NoDuplicates(out)
            /\ (\A i \in 1..Len(tokens) : ~HasSynonyms(tokens[i])) => Len(out) = 1

\* C23 (amended): the same, the list having exactly one element when no token
\* of the normalised query is a key of the synonym table.
C23_ExpandSingleWhenNoNormalisedKey ==
    Called("expand_query") =>
        LET out == lib_out.value
            tokens == Split(preprocess_arabic_text(lib_arg.v))
        IN  /\ Len(out) >= 1
            /\ out[1] = preprocess_arabic_text(lib_arg.v)
            /\ NoDuplicates(out)
            /\ (\A i \in 1..Len(tokens) : ~HasSynonyms(tokens[i])) => Len(out) = 1

\* A query naming one key twice was expanded: the related terms, collected
\* twice, are in the list once.
C23_Witness ==
    /\ Called("expand_query")
    /\ LET tokens == Split(preprocess_arabic_text(lib_arg.v))
       IN  /\ Len(tokens) = 2
           /\ tokens[1] = tokens[2]
           /\ HasSynonyms(tokens[1])
           /\ Len(lib_out.value) = 1 + Len(SynonymsOf(tokens[1]))

\* s is a subsequence of t: the elements of s occur in t in the same order.
RECURSIVE IsSubsequence(_, _)
IsSubsequence(s, t) ==
    IF s = <<>> THEN TRUE
    ELSE IF t = <<>> THEN FALSE
    ELSE IF s[1] = t[1] THEN IsSubsequence(Tail(s), Tail(t))
    ELSE IsSubsequence(s, Tail(t))

\* C28: for every key k of the synonym table, expanding a query that has k as
\* a whitespace-separated token gives a list with every related term of k, in
\* table order, after the normalised query.
C28_KeyExpandsToRelatedTerms ==
    Called("expand_query") =>
        LET out == lib_out.value
            tokens == Split(lib_arg.v)
        IN  \A i \in 1..Len(tokens) :
                HasSynonyms(tokens[i]) =>
                    /\ Len(out) >= 1
                    /\ IsSubsequence(SynonymsOf(tokens[i]), Tail(out))


\* The kind of a clause of the composed lexical query.
ClauseKind(c) ==
    IF "match_phrase" \in DOMAIN c THEN "phrase"
    ELSE IF "fuzzy" \in DOMAIN c THEN "fuzzy"
    ELSE IF "multi_match" \in DOMAIN c THEN "cross_field"
    ELSE IF "wildcard" \in DOMAIN c THEN "substring"
    ELSE IF "bool" \in DOMAIN c THEN "every_word"
    ELSE IF "operator" \in DOMAIN c.match.text THEN "all_words"
    ELSE "synonym"

\* The boost of a clause of the composed lexical query, times ten.
ClauseBoost(c) ==
    IF "match_phrase" \in DOMAIN c THEN c.match_phrase.text.boost
    ELSE IF "fuzzy" \in DOMAIN c THEN c.fuzzy.text.boost
    ELSE IF "multi_match" \in DOMAIN c THEN c.multi_match.boost
    ELSE IF "wildcard" \in DOMAIN c THEN c.wildcard.text.boost
    ELSE IF "bool" \in DOMAIN c THEN c.bool.boost
    ELSE c.match.text.boost

\* The boosts of the clauses of one class in a should list; the synonym
\* clauses are "synonym_early" for the first three and "synonym_late" after.
Weights(should, class) ==
    LET syn == {i \in 1..Len(should) : ClauseKind(should[i]) = "synonym"}
        nth(i) == Cardinality({j \in syn : j <= i})
        classOf(i) ==
            IF i \in syn
            THEN (IF nth(i) <= 3 THEN "synonym_early" ELSE "synonym_late")
            ELSE ClauseKind(should[i])
    IN  {ClauseBoost(should[i]) : i \in {j \in 1..Len(should) : classOf(j) = class}}

Above(A, B) == \A a \in A, b \in B : a > b
NotBelow(A, B) == \A a \in A, b \in B : a >= b

\* C24: in the composed lexical query of any term, phrase > all-words >
\* synonym (first 3) > cross-field > fuzzy > synonym (overflow) >= substring,
\* and the every-word clause is weighted below fuzzy and above substring.
C24_ClauseWeightOrder ==
    Called("create_enhanced_query") =>
        LET should == lib_out.value.bool.should
            W(class) == Weights(should, class)
        IN  /\ Cardinality(W("phrase")) = 1
            /\ Above(W("phrase"), W("all_words"))
            /\ Above(W("all_words"), W("synonym_early"))
            /\ Above(W("synonym_early"), W("cross_field"))
            /\ Above(W("cross_field"), W("fuzzy"))
            /\ Above(W("fuzzy"), W("synonym_late"))
            /\ NotBelow(W("synonym_late"), W("substring"))
            /\ Above(W("fuzzy"), W("every_word"))
            /\ Above(W("every_word"), W("substring"))

\* C25: the hybrid query built with no embedding is structurally identical
\* to the lexical-only query create_enhanced_query returns for the term.
C25_HybridWithoutEmbeddingIsLexical ==
    (Called("create_hybrid_query") /\ lib_arg.embedding = NoEmbedding) =>
        lib_out.value = create_enhanced_query(lib_arg.v)

\* The boost a query object carries, times ten, its body being the value of
\* its one key; a query that names none has Elasticsearch's default, 1.0.
QueryBoost(body) == IF "boost" \in DOMAIN body THEN body.boost ELSE 10

\* C26: with an embedding, the hybrid query is a disjunction of exactly two
\* alternatives of which at least one must match: a cosine-similarity vector
\* clause boosted above the lexical part, and a lexical part identical to
\* create_enhanced_query's output for the term.
C26_HybridVectorBoostedAboveLexical ==
    (Called("create_hybrid_query") /\ lib_arg.embedding # NoEmbedding) =>
        LET should == lib_out.value.bool.should
        IN  /\ Len(should) = 2
            /\ lib_out.value.bool.minimum_should_match = 1
            /\ "script_score" \in DOMAIN should[1]
            /\ should[1].script_score.script.params.query_vector = lib_arg.embedding.vec
            /\ should[2] = create_enhanced_query(lib_arg.v)
            /\ QueryBoost(should[1].script_score) > QueryBoost(should[2].bool)

\* What create_hybrid_query does give with an embedding: the two
\* alternatives, neither carrying a boost.
Hybrid_TwoUnboostedAlternatives ==
    (Called("create_hybrid_query") /\ lib_arg.embedding # NoEmbedding) =>
        LET should == lib_out.value.bool.should
        IN  /\ Len(should) = 2
            /\ lib_out.value.bool.minimum_should_match = 1
            /\ "script_score" \in DOMAIN should[1]
            /\ should[2] = create_enhanced_query(lib_arg.v)
            /\ QueryBoost(should[1].script_score) = QueryBoost(should[2].bool)


\* C27: every emitted group contains every indexed segment whose group_id is
\* the group's id; the size of the second fetch truncates no group.
C27_GroupsComplete ==
    V2Grouped =>
        \A k \in 1..Len(v2_groups) :
            {v2_groups[k].docs[i] : i \in 1..Len(v2_groups[k].docs)}
                = {n \in IndexDocs(v2_index) : Doc(n).group_id = Given(EmittedIds[k])}


\* The number of input segments an output segment was built from: the texts
\* of its inputs are joined by single spaces.
RunLen(seg) == Len(Split(seg.text))

RECURSIVE RunsBefore(_, _)
\* The number of input segments in the first k output segments.
RunsBefore(out, k) == IF k = 0 THEN 0 ELSE RunsBefore(out, k - 1) + RunLen(out[k])

\* C29: merge_short_segments partitions a time-ordered input into consecutive
\* runs in input order, each output segment starting at the start of its
\* run's first input and ending at the end of its last, and every output
\* built from two or more inputs lasts at most max_duration.
C29_MergePartitionsIntoRuns ==
    Called("merge_short_segments") =>
        LET segments == lib_arg.segments
            out == lib_out.value
        IN  /\ RunsBefore(out, Len(out)) = Len(segments)
            /\ \A k \in 1..Len(out) :
                  LET first == RunsBefore(out, k - 1) + 1
                      last == RunsBefore(out, k)
                  IN  /\ first <= last
                      /\ Split(out[k].text) = [i \in 1..RunLen(out[k]) |-> segments[first + i - 1].text]
                      /\ out[k].start = segments[first].start
                      /\ out[k].end = segments[last].end
                      /\ RunLen(out[k]) >= 2 =>
                            out[k].end - out[k].start <= lib_arg.max_duration

\* Three segments: the first two were merged, the third was kept apart
\* though the merged segment is short, the three lasting more than max_duration.
C29_Witness ==
    /\ Called("merge_short_segments")
    /\ Len(lib_arg.segments) = 3
    /\ Len(lib_out.value) = 2
    /\ RunLen(lib_out.value[1]) = 2
    /\ lib_out.value[1].end - lib_out.value[1].start < lib_arg.min_duration
    /\ lib_arg.segments[3].end - lib_arg.segments[1].start > lib_arg.max_duration


\* C30: under any interleaving of concurrent / and /search requests, a
\* /search request that passed its availability check never calls search on
\* an absent client: no request ends with the failure of None.search.
C30_SearchNeverOnNoneHandle ==
    \A p \in Procs :
        (route[p] = "search" /\ pc2[p] = "done") => raised2[p] # NoneHasNoSearch

=============================================================================
